---- MODULE Spec2Model ----
(***************************************************************************)
(* Model of MeasureServices (pkg/command/service/measure.go): the          *)
(* coordinator that enumerates the targets, starts the workers, feeds the  *)
(* unbuffered channel, waits on the wait group and merges the per-worker   *)
(* results, and the worker goroutines that resolve one target at a time    *)
(* through the chain of lookups.                                           *)
(*                                                                         *)
(* Timestamps are counted in ticks of half a second; 0 is Go's zero time.  *)
(***************************************************************************)
EXTENDS Integers, Sequences, FiniteSets, TLC

\* ------------------------------------------------------------------ bounds
MaxTargets == 3
MaxConcurrency == 2
\* The longest range 1..n that is also run with the verbose option on.
MaxVerboseTargets == 2

\* ------------------------------------------------------------- basic values
\* A condition (or a running state) that the fetched object does not carry:
\* GetCondition / State.Running return nil.
Absent == -1
\* The zero value of metav1.Time and of time.Duration.
ZeroTime == 0
ZeroDuration == 0
\* err == nil
NoErr == [reason |-> "", msg |-> <<>>]

SvcPrefix == <<"s", "v", "c">>
Namespace == <<"n", "s">>
\* A service prefix that itself contains "-".
DashedPrefix == <<"k", "-", "s">>
NamespacePrefix == <<"n", "s">>

\* strings.Contains(s, sub), on words.
Contains(s, sub) ==
    \E k \in 0..(Len(s) - Len(sub)) :
        \A x \in 1..Len(sub) : s[k + x] = sub[x]

\* The resolution of the timestamps the collaborators answer with.
TicksPerSecond == 2
\* t.Rfc3339Copy(): the timestamp at second resolution.
Rfc3339Copy(t) == t - (t % TicksPerSecond)
\* a.Sub(b) for two timestamps: a duration, in ticks.
Sub(a, b) == a - b

\* ---------------------------------------------------------------- strings
\* A string that the code formats, splits or parses is the sequence of its
\* characters.
Digits == <<"0", "1", "2", "3", "4", "5", "6", "7", "8", "9">>
IsDigit(c) == \E d \in 1..Len(Digits) : Digits[d] = c
DigitValue(c) == (CHOOSE d \in 1..Len(Digits) : Digits[d] = c) - 1

\* strconv.Itoa
RECURSIVE Itoa(_)
Itoa(i) ==
    IF i < 0 THEN <<"-">> \o Itoa(0 - i)
    ELSE IF i < 10 THEN <<Digits[i + 1]>>
    ELSE Itoa(i \div 10) \o <<Digits[(i % 10) + 1]>>

\* strconv.ParseInt(s, 10, 64) with the error dropped: 0 on a syntax error.
RECURSIVE ParseDigits(_, _)
ParseDigits(s, acc) ==
    IF s = <<>> THEN acc ELSE ParseDigits(Tail(s), acc * 10 + DigitValue(Head(s)))
ParseInt(s) ==
    LET signed == s # <<>> /\ Head(s) \in {"+", "-"}
        digits == IF signed THEN Tail(s) ELSE s
    IN IF digits = <<>> \/ \E k \in 1..Len(digits) : ~IsDigit(digits[k])
       THEN 0
       ELSE IF signed /\ Head(s) = "-" THEN 0 - ParseDigits(digits, 0)
       ELSE ParseDigits(digits, 0)

\* strings.Split(s, sep) for a one-character separator.
RECURSIVE Split(_, _)
Split(s, sep) ==
    IF \E k \in 1..Len(s) : s[k] = sep
    THEN LET k == CHOOSE x \in 1..Len(s) : s[x] = sep /\ \A y \in 1..(x - 1) : s[y] # sep
         IN <<SubSeq(s, 1, k - 1)>> \o Split(SubSeq(s, k + 1, Len(s)), sep)
    ELSE <<s>>

\* ---------------------------------------------------------------- targets
\* sName := fmt.Sprintf("%s-%s", inputs.SvcPrefix, strconv.Itoa(i))
ServiceName(prefix, i) == prefix \o <<"-">> \o Itoa(i)

\* for i := start; i <= end; i++ { append([]string{sName, inputs.Namespace}) }
RangeTargets(prefix, ns, start, end) ==
    [k \in 1..(IF end >= start THEN end - start + 1 ELSE 0) |->
        <<ServiceName(prefix, start + k - 1), ns>>]

\* strings.HasPrefix
HasPrefix(s, prefix) == Len(s) >= Len(prefix) /\ SubSeq(s, 1, Len(prefix)) = prefix

\* What servingClient.Services(ns).List answers in the namespaces ns-1, ns-2,
\* ... of a cluster, as service names.  In the first cluster both namespaces
\* hold a service svc-1; in the second one namespace holds a service named by
\* the bare prefix.
SameNameCluster ==
    <<(<<ServiceName(SvcPrefix, 1), <<"w", "e", "b", "-", "1">> >>),
      (<<ServiceName(SvcPrefix, 1)>>)>>
BarePrefixCluster == <<(<<SvcPrefix, ServiceName(SvcPrefix, 2)>>)>>

\* for _, svc := range svcList.Items { if strings.HasPrefix(svc.Name, prefix) {...} }
RECURSIVE MatchingServices(_, _, _)
MatchingServices(svcList, prefix, svcNsName) ==
    IF svcList = <<>> THEN <<>>
    ELSE (IF HasPrefix(Head(svcList), prefix) THEN << <<Head(svcList), svcNsName>> >> ELSE <<>>)
         \o MatchingServices(Tail(svcList), prefix, svcNsName)

\* for i := start; i <= end; i++ { svcNsName := Sprintf("%s-%s", nsPrefix, Itoa(i)); List; ... }
RECURSIVE DiscoveredTargets(_, _, _, _, _)
DiscoveredTargets(cluster, nsPrefix, prefix, i, end) ==
    IF i > end THEN <<>>
    ELSE MatchingServices(cluster[i], prefix, nsPrefix \o <<"-">> \o Itoa(i))
         \o DiscoveredTargets(cluster, nsPrefix, prefix, i + 1, end)

\* The target lists the runs start from: the ranges 1..n and 9..10 of the
\* prefix svc, the range 1..2 of the prefix k-s, and the services discovered
\* in the two clusters.
Enumerations ==
    {RangeTargets(SvcPrefix, Namespace, 1, n) : n \in 0..MaxTargets}
    \cup {RangeTargets(SvcPrefix, Namespace, 9, 10),
          RangeTargets(DashedPrefix, Namespace, 1, 2),
          DiscoveredTargets(SameNameCluster, NamespacePrefix, SvcPrefix, 1, 2),
          DiscoveredTargets(BarePrefixCluster, NamespacePrefix, SvcPrefix, 1, 1)}

\* ------------------------------------------------- collaborator answers
\* An error: the reason of its API status and the words of err.Error().
\* The top-level Get can fail because the service does not exist, because
\* the request timed out, or because it is forbidden (the RBAC reason in the
\* message names a role that was not found).
ErrSvcNotFound ==
    [reason |-> "NotFound", msg |-> <<"services", "svc", "not", "found">>]
ErrTimeout ==
    [reason |-> "Timeout", msg |-> <<"context", "deadline", "exceeded">>]
ErrForbidden ==
    [reason |-> "Forbidden",
     msg |-> <<"services", "svc", "is", "forbidden", "RBAC", "role", "view", "not", "found">>]
SvcErrors == {ErrSvcNotFound, ErrTimeout, ErrForbidden}
\* apierrors.IsNotFound(err)
IsNotFound(e) == e.reason = "NotFound"
\* The error of a later lookup; its text is never inspected.
ErrLookup == [reason |-> "InternalError", msg |-> <<"lookup", "failed">>]

NoObject == [ready |-> FALSE, created |-> ZeroTime, conds |-> <<>>]

\* The services of the cluster whose routes took longer to become ready.
SlowServices == {ServiceName(SvcPrefix, 2), ServiceName(SvcPrefix, 10)}
\* The time at which the routes of service svc became ready.
RoutesReadyAt(svc) == IF svc \in SlowServices THEN 13 ELSE 9

\* (svcIns, err) of servingClient.Services(ns).Get(svc)
SvcAnswers(svc) ==
    {[err |-> e, obj |-> NoObject] : e \in SvcErrors}
    \cup {[err |-> NoErr, obj |-> o] : o \in {
        [ready |-> FALSE, created |-> 2, conds |-> <<>>],
        [ready |-> TRUE, created |-> 2,
         conds |-> <<[type |-> "ConfigurationsReady", t |-> 5],
                     [type |-> "RoutesReady", t |-> RoutesReadyAt(svc)]>>],
        [ready |-> TRUE, created |-> 2,
         conds |-> <<[type |-> "ConfigurationsReady", t |-> 5]>>]}}

\* (obj, err) of the Get of a later object: its creation time and conditions.
Answer(created, conds) == [err |-> NoErr, obj |-> [ready |-> TRUE, created |-> created, conds |-> conds]]
Failure == [err |-> ErrLookup, obj |-> NoObject]

CfgAnswers == {Failure, Answer(2, <<>>)}
RevAnswers == {Failure,
               Answer(3, <<[type |-> "Ready", t |-> 10]>>),
               Answer(3, <<>>)}
DeployAnswers == {Failure, Answer(5, <<>>)}
KpaAnswers == {Failure,
               Answer(4, <<[type |-> "Active", t |-> 11]>>),
               Answer(4, <<>>)}
SksAnswers == {Failure,
               Answer(4, <<[type |-> "ActivatorEndpointsPopulated", t |-> 6],
                           [type |-> "EndpointsPopulated", t |-> 9],
                           [type |-> "Ready", t |-> 9]>>),
               Answer(4, <<[type |-> "ActivatorEndpointsPopulated", t |-> 6],
                           [type |-> "Ready", t |-> 9]>>)}
IngAnswers == {Failure,
               Answer(5, <<[type |-> "NetworkConfigured", t |-> 7],
                           [type |-> "LoadBalancerReady", t |-> 9]>>),
               Answer(5, <<[type |-> "NetworkConfigured", t |-> 7]>>)}

\* A pod: creation time, status conditions, container statuses (running is
\* the StartedAt of State.Running, Absent when the container is not running).
Pod(conds, cs) == [created |-> 5, conds |-> conds, containers |-> cs]
Scheduled == [type |-> "PodScheduled", t |-> 7]
CReady == [type |-> "ContainersReady", t |-> 11]
QueueProxy == [name |-> "queue-proxy", running |-> 8]
UserContainer == [name |-> "user-container", running |-> 10]
FullPod == Pod(<<Scheduled, CReady>>, <<UserContainer, QueueProxy>>)
Pods == {FullPod,
         Pod(<<CReady>>, <<UserContainer, QueueProxy>>),
         Pod(<<Scheduled>>, <<UserContainer, QueueProxy>>),
         Pod(<<Scheduled, CReady>>, <<UserContainer>>),
         Pod(<<Scheduled, CReady>>, <<QueueProxy>>),
         Pod(<<Scheduled, CReady>>, <<[name |-> "user-container", running |-> Absent], QueueProxy>>)}
\* (podList, err) of Pods(ns).List
PodListAnswers ==
    {[err |-> ErrLookup, items |-> <<>>], [err |-> NoErr, items |-> <<>>]}
    \cup {[err |-> NoErr, items |-> <<p>>] : p \in Pods}


\* ------------------------------------------------------ platform helpers
\* obj.Status.GetCondition(t): the condition of that type, nil when absent;
\* here its LastTransitionTime, Absent for nil.
GetCondition(obj, type) ==
    IF \E k \in 1..Len(obj.conds) : obj.conds[k].type = type
    THEN obj.conds[CHOOSE k \in 1..Len(obj.conds) :
                       /\ obj.conds[k].type = type
                       /\ \A m \in 1..(k - 1) : obj.conds[m].type # type].t
    ELSE Absent

\* obj.Status.GetCondition(t).LastTransitionTime.Inner.Rfc3339Copy(): Absent
\* stands for the dereference of nil.
TransitionTime(obj, type) ==
    IF GetCondition(obj, type) = Absent THEN Absent
    ELSE Rfc3339Copy(GetCondition(obj, type))

\* getPodCondition: the index of the condition, -1 when it is not present.
getPodCondition(status, conditionType) ==
    IF \E k \in 1..Len(status.conds) : status.conds[k].type = conditionType
    THEN (CHOOSE k \in 1..Len(status.conds) :
              /\ status.conds[k].type = conditionType
              /\ \A m \in 1..(k - 1) : status.conds[m].type # conditionType) - 1
    ELSE -1

\* getContainerStatus: (status, found).
getContainerStatus(status, name) ==
    IF \E k \in 1..Len(status) : status[k].name = name
    THEN [found |-> TRUE,
          s |-> status[CHOOSE k \in 1..Len(status) :
                           /\ status[k].name = name
                           /\ \A m \in 1..(k - 1) : status[m].name # name]]
    ELSE [found |-> FALSE, s |-> [name |-> name, running |-> Absent]]

\* ------------------------------------------------------------ the records
\* pkg.MeasureResult{}: the counters, the sums and the overallReady samples.
ZeroSums ==
    [SvcConfigurationsReadySum |-> 0, RevisionReadySum |-> 0, DeploymentCreatedSum |-> 0,
     PodScheduledSum |-> 0, ContainersReadySum |-> 0, QueueProxyStartedSum |-> 0,
     UserContrainerStartedSum |-> 0, SvcRoutesReadySum |-> 0, KpaActiveSum |-> 0,
     SksReadySum |-> 0, SksActivatorEndpointsPopulatedSum |-> 0,
     SksEndpointsPopulatedSum |-> 0, IngressReadySum |-> 0,
     IngressNetworkConfiguredSum |-> 0, IngressLoadBalancerReadySum |-> 0,
     SvcReadySum |-> 0]
MeasureResult ==
    [ReadyCount |-> 0, NotReadyCount |-> 0, NotFoundCount |-> 0, FailCount |-> 0,
     Sums |-> ZeroSums, SvcReadyTime |-> <<>>]

\* The duration variables a worker declares once, outside its loop.
ZeroDurations ==
    [svcConfigurationsReadyDuration |-> ZeroDuration, svcReadyDuration |-> ZeroDuration,
     svcRoutesReadyDuration |-> ZeroDuration, podScheduledDuration |-> ZeroDuration,
     containersReadyDuration |-> ZeroDuration, queueProxyStartedDuration |-> ZeroDuration,
     userContrainerStartedDuration |-> ZeroDuration]

\* The variables of one loop iteration, at their zero values.  j is the
\* position of the received item in svcNamespacedName, call the last lookup
\* issued, err its error, class the counter incremented for the item.
ZeroIteration ==
    [j |-> 0, call |-> "", err |-> NoErr, class |-> "",
     svcIns |-> NoObject, podList |-> <<>>,
     svcCreatedTime |-> ZeroTime, svcConfigurationsReady |-> ZeroTime,
     svcRoutesReady |-> ZeroTime,
     revisionCreatedTime |-> ZeroTime, revisionReadyTime |-> ZeroTime,
     revisionReadyDuration |-> ZeroDuration,
     deploymentCreatedTime |-> ZeroTime, deploymentCreatedDuration |-> ZeroDuration,
     podCreatedTime |-> ZeroTime, podScheduledTime |-> ZeroTime,
     containersReadyTime |-> ZeroTime, queueProxyStartedTime |-> ZeroTime,
     userContrainerStartedTime |-> ZeroTime,
     kpaCreatedTime |-> ZeroTime, kpaActiveTime |-> ZeroTime,
     kpaActiveDuration |-> ZeroDuration,
     sksCreatedTime |-> ZeroTime, sksActivatorEndpointsPopulatedTime |-> ZeroTime,
     sksEndpointsPopulatedTime |-> ZeroTime, sksReadyTime |-> ZeroTime,
     sksActivatorEndpointsPopulatedDuration |-> ZeroDuration,
     sksEndpointsPopulatedDuration |-> ZeroDuration, sksReadyDuration |-> ZeroDuration,
     ingressCreatedTime |-> ZeroTime, ingressNetworkConfiguredTime |-> ZeroTime,
     ingressLoadBalancerReadyTime |-> ZeroTime,
     ingressNetworkConfiguredDuration |-> ZeroDuration,
     ingressLoadBalancerReadyDuration |-> ZeroDuration,
     ingressReadyDuration |-> ZeroDuration]

\* r with the fields of f assigned.
With(r, f) == [x \in DOMAIN r |-> IF x \in DOMAIN f THEN f[x] ELSE r[x]]

\* errors.New / fmt.Errorf
ErrNoService == [reason |-> "", msg |-> <<"no", "service", "found", "to", "measure">>]
ClientErr(c) == [reason |-> "", msg |-> <<"failed", "to", "create", c, "client">>]
Clients == {"autoscaling", "serving", "networking"}

\* (outputLocation, err) of utils.CheckOutputLocation(inputs.Output): the
\* directory, or an error when it cannot be used.
ErrOutput == [reason |-> "", msg |-> <<"output", "location", "is", "not", "a", "directory">>]
OutputLocations == {[err |-> NoErr, dir |-> "out"], [err |-> ErrOutput, dir |-> ""]}
\* CheckOutputLocation was not called.
NoLocation == [err |-> NoErr, dir |-> ""]

\* a / b on float64
Quotient(a, b) == [num |-> a, den |-> b]

\* The zero value of measureFinalResult.Result's overall fields.
ZeroResult ==
    [OverallTotal |-> Quotient(0, 1), OverallAverage |-> Quotient(0, 1),
     OverallMedian |-> Quotient(0, 1), OverallMin |-> Quotient(0, 1),
     OverallMax |-> Quotient(0, 1), P50 |-> Quotient(0, 1), P90 |-> Quotient(0, 1),
     P95 |-> Quotient(0, 1), P98 |-> Quotient(0, 1), P99 |-> Quotient(0, 1)]

\* Nothing printed yet.
NoReport ==
    [kind |-> "", total |-> 0, printed |-> {},
     averages |-> [x \in DOMAIN ZeroSums |-> Quotient(0, 1)],
     result |-> ZeroResult,
     percentages |-> <<>>, divisors |-> {}, files |-> {}, location |-> NoLocation]

\* ------------------------------------------------------------------ state
VARIABLES
    svcNamespacedName,      \* the enumerated targets
    Concurrency,            \* inputs.Concurrency
    VerboseChanged,         \* options.VerboseChanged
    stdout,                 \* the [Verbose] blocks printed, one per target
    pcMain,                 \* where MeasureServices is
    next,                   \* position of the range loop over svcNamespacedName
    runErr,                 \* the error MeasureServices returns
    group,                  \* sync.WaitGroup counter
    lock,                   \* sync.Mutex: TRUE when held
    workerMeasureResults,   \* one slot per worker
    currentMeasureResult,   \* each worker's local copy
    pc,                     \* where each worker is
    dur,                    \* each worker's duration variables (outside the loop)
    it,                     \* each worker's variables of the current iteration
    rows, rawRows,          \* the two result tables
    measureFinalResult,
    report,                 \* what the run printed and wrote at the end
    panicked,               \* the runtime panic that ended the process, "" if none
    recvBy,                 \* history: per item, the workers that received it
    classOf,                \* history: per item, the counters incremented for it
    doneOf,                 \* history: per item, the group.Done calls made for it
    merges                  \* history: number of times the merge loop ran

vars == <<svcNamespacedName, Concurrency, VerboseChanged, stdout, pcMain, next, runErr, group, lock,
          workerMeasureResults, currentMeasureResult, pc, dur, it, rows, rawRows,
          measureFinalResult, report, panicked, recvBy, classOf, doneOf, merges>>

Workers == 0..(Concurrency - 1)
Items == 1..Len(svcNamespacedName)

Init ==
    /\ svcNamespacedName \in Enumerations
    /\ Concurrency \in 1..MaxConcurrency
    /\ VerboseChanged \in {FALSE} \cup
          {\E n \in 0..MaxVerboseTargets :
               svcNamespacedName = RangeTargets(SvcPrefix, Namespace, 1, n)}
    /\ stdout = <<>>
    /\ pcMain = "clients"
    /\ next = 0
    /\ runErr = NoErr
    /\ group = 0
    /\ lock = FALSE
    /\ workerMeasureResults = [w \in Workers |-> MeasureResult]
    /\ currentMeasureResult = [w \in Workers |-> MeasureResult]
    /\ pc = [w \in Workers |-> "off"]
    /\ dur = [w \in Workers |-> ZeroDurations]
    /\ it = [w \in Workers |-> ZeroIteration]
    /\ rows = <<>>
    /\ rawRows = <<>>
    /\ measureFinalResult = MeasureResult
    /\ report = NoReport
    /\ panicked = ""
    /\ recvBy = [i \in Items |-> <<>>]
    /\ classOf = [i \in Items |-> <<>>]
    /\ doneOf = [i \in Items |-> 0]
    /\ merges = 0

Running == panicked = ""


\* --------------------------------------------------------- the coordinator
\* NewAutoscalingClient, NewServingClient, NewNetworkingClient: the first
\* failure is returned.
NewClients ==
    /\ Running /\ pcMain = "clients"
    /\ \E failing \in Clients \cup {"none"} :
        IF failing = "none"
        THEN pcMain' = "spawn" /\ runErr' = runErr
        ELSE pcMain' = "returned" /\ runErr' = ClientErr(failing)
    /\ UNCHANGED <<svcNamespacedName, Concurrency, VerboseChanged, stdout, next, group, lock,
                   workerMeasureResults, currentMeasureResult, pc, dur, it, rows,
                   rawRows, measureFinalResult, report, panicked, recvBy, classOf,
                   doneOf, merges>>

\* StartWorkers with the loop that starts the goroutines beginning at 1:
\* no goroutine is started for index 0.
StartWorkersFromOne ==
    /\ Running /\ pcMain = "spawn"
    /\ workerMeasureResults' = [w \in Workers |-> MeasureResult]
    /\ currentMeasureResult' = [w \in Workers |-> workerMeasureResults'[w]]
    /\ pc' = [w \in Workers |-> IF w >= 1 THEN "recv" ELSE "off"]
    /\ pcMain' = "check"
    /\ UNCHANGED <<svcNamespacedName, Concurrency, VerboseChanged, stdout, next, runErr,
                   group, lock, dur, it, rows, rawRows, measureFinalResult, report,
                   panicked, recvBy, classOf, doneOf, merges>>

\* The slots are initialised and the goroutines started; each goroutine
\* copies its slot and blocks on the channel.
StartWorkers ==
    /\ Running /\ pcMain = "spawn"
    /\ workerMeasureResults' = [w \in Workers |-> MeasureResult]
    /\ currentMeasureResult' = [w \in Workers |-> workerMeasureResults'[w]]
    /\ pc' = [w \in Workers |-> "recv"]
    /\ pcMain' = "check"
    /\ UNCHANGED <<svcNamespacedName, Concurrency, VerboseChanged, stdout, next, runErr, group, lock, dur, it,
                   rows, rawRows, measureFinalResult, report, panicked, recvBy,
                   classOf, doneOf, merges>>

\* CheckTargets without the test for an empty list: the range loop over no
\* items falls through to group.Wait().
CheckTargetsNoTest ==
    /\ Running /\ pcMain = "check"
    /\ IF Len(svcNamespacedName) = 0
       THEN pcMain' = "wait" /\ next' = next
       ELSE pcMain' = "add" /\ next' = 1
    /\ UNCHANGED <<svcNamespacedName, Concurrency, VerboseChanged, stdout, runErr, group, lock,
                   workerMeasureResults, currentMeasureResult, pc, dur, it, rows,
                   rawRows, measureFinalResult, report, panicked, recvBy, classOf,
                   doneOf, merges>>

\* if len(svcNamespacedName) == 0 { return errors.New(...) }
CheckTargets ==
    /\ Running /\ pcMain = "check"
    /\ IF Len(svcNamespacedName) = 0
       THEN pcMain' = "returned" /\ runErr' = ErrNoService /\ next' = next
       ELSE pcMain' = "add" /\ runErr' = runErr /\ next' = 1
    /\ UNCHANGED <<svcNamespacedName, Concurrency, VerboseChanged, stdout, group, lock, workerMeasureResults,
                   currentMeasureResult, pc, dur, it, rows, rawRows,
                   measureFinalResult, report, panicked, recvBy, classOf, doneOf,
                   merges>>

\* group.Add(1)
GroupAdd ==
    /\ Running /\ pcMain = "add"
    /\ group' = group + 1
    /\ pcMain' = "send"
    /\ UNCHANGED <<svcNamespacedName, Concurrency, VerboseChanged, stdout, next, runErr, lock,
                   workerMeasureResults, currentMeasureResult, pc, dur, it, rows,
                   rawRows, measureFinalResult, report, panicked, recvBy, classOf,
                   doneOf, merges>>

\* GroupWait that does not block.
GroupWaitNoBlock ==
    /\ Running /\ pcMain = "wait"
    /\ pcMain' = "merge"
    /\ UNCHANGED <<svcNamespacedName, Concurrency, VerboseChanged, stdout, next, runErr, group, lock,
                   workerMeasureResults, currentMeasureResult, pc, dur, it, rows,
                   rawRows, measureFinalResult, report, panicked, recvBy, classOf,
                   doneOf, merges>>

\* group.Wait()
GroupWait ==
    /\ Running /\ pcMain = "wait"
    /\ group = 0
    /\ pcMain' = "merge"
    /\ UNCHANGED <<svcNamespacedName, Concurrency, VerboseChanged, stdout, next, runErr, group, lock,
                   workerMeasureResults, currentMeasureResult, pc, dur, it, rows,
                   rawRows, measureFinalResult, report, panicked, recvBy, classOf,
                   doneOf, merges>>

\* ------------------------------------------------------------- the workers
\* counter++ on the local copy.
Increment(m, class) ==
    CASE class = "Ready" -> [m EXCEPT !.ReadyCount = @ + 1]
      [] class = "NotReady" -> [m EXCEPT !.NotReadyCount = @ + 1]
      [] class = "NotFound" -> [m EXCEPT !.NotFoundCount = @ + 1]
      [] class = "Fail" -> [m EXCEPT !.FailCount = @ + 1]

\* Abandon with "return" in place of "group.Done(); continue": the goroutine
\* ends.
AbandonReturns(w, class, iter) ==
    /\ currentMeasureResult' = [currentMeasureResult EXCEPT ![w] = Increment(@, class)]
    /\ workerMeasureResults' = [workerMeasureResults EXCEPT ![w] = currentMeasureResult'[w]]
    /\ it' = [it EXCEPT ![w] = With(iter, [class |-> class])]
    /\ classOf' = [classOf EXCEPT ![iter.j] = Append(@, class)]
    /\ pc' = [pc EXCEPT ![w] = "off"]
    /\ panicked' = panicked

\* Abandon that writes the local copy back to slot 0 instead of the
\* worker's own slot.
AbandonWritesSlotZero(w, class, iter) ==
    /\ currentMeasureResult' = [currentMeasureResult EXCEPT ![w] = Increment(@, class)]
    /\ workerMeasureResults' = [workerMeasureResults EXCEPT ![0] = currentMeasureResult'[w]]
    /\ it' = [it EXCEPT ![w] = With(iter, [class |-> class])]
    /\ classOf' = [classOf EXCEPT ![iter.j] = Append(@, class)]
    /\ pc' = [pc EXCEPT ![w] = "done"]
    /\ panicked' = panicked

\* Abandon that also records an overallReady sample for the abandoned item.
AbandonAddsSample(w, class, iter) ==
    /\ currentMeasureResult' = [currentMeasureResult EXCEPT ![w] =
           [Increment(@, class) EXCEPT !.SvcReadyTime = Append(@, 0)]]
    /\ workerMeasureResults' = [workerMeasureResults EXCEPT ![w] = currentMeasureResult'[w]]
    /\ it' = [it EXCEPT ![w] = With(iter, [class |-> class])]
    /\ classOf' = [classOf EXCEPT ![iter.j] = Append(@, class)]
    /\ pc' = [pc EXCEPT ![w] = "done"]
    /\ panicked' = panicked

\* The end every non-ready branch shares: the counter, the write-back of the
\* local copy to the worker's slot, then on to group.Done() and continue.
Abandon(w, class, iter) ==
    /\ currentMeasureResult' = [currentMeasureResult EXCEPT ![w] = Increment(@, class)]
    /\ workerMeasureResults' = [workerMeasureResults EXCEPT ![w] = currentMeasureResult'[w]]
    /\ it' = [it EXCEPT ![w] = With(iter, [class |-> class])]
    /\ classOf' = [classOf EXCEPT ![iter.j] = Append(@, class)]
    /\ pc' = [pc EXCEPT ![w] = "done"]
    /\ panicked' = panicked

\* A nil pointer is dereferenced: the goroutine panics and the process ends.
NilDereference(w, iter) ==
    /\ panicked' = "nil pointer dereference"
    /\ it' = [it EXCEPT ![w] = iter]
    /\ UNCHANGED <<currentMeasureResult, workerMeasureResults, classOf, pc>>

\* The lookup succeeded and the chain goes on.
Proceed(w, iter, to) ==
    /\ it' = [it EXCEPT ![w] = iter]
    /\ pc' = [pc EXCEPT ![w] = to]
    /\ UNCHANGED <<currentMeasureResult, workerMeasureResults, classOf, panicked>>

\* Receive with the coordinator's loop running over the list from its end.
ReceiveFromTheEnd(w) ==
    /\ Running /\ pcMain = "send" /\ pc[w] = "recv"
    /\ LET k == Len(svcNamespacedName) - next + 1
           j == svcNamespacedName[k]
           iter == With(ZeroIteration, [j |-> k])
       IN /\ recvBy' = [recvBy EXCEPT ![k] = Append(@, w)]
          /\ IF Len(j) # 2
             THEN Abandon(w, "Fail", iter)
             ELSE Proceed(w, iter, "svc")
    /\ IF next < Len(svcNamespacedName)
       THEN pcMain' = "add" /\ next' = next + 1
       ELSE pcMain' = "wait" /\ next' = next
    /\ UNCHANGED <<svcNamespacedName, Concurrency, VerboseChanged, stdout, runErr, group,
                   lock, dur, rows, rawRows, measureFinalResult, report, doneOf, merges>>

\* The unbuffered channel: the coordinator's send of the next item and the
\* receive of worker w's range loop happen together.
Receive(w) ==
    /\ Running /\ pcMain = "send" /\ pc[w] = "recv"
    /\ LET j == svcNamespacedName[next]
           iter == With(ZeroIteration, [j |-> next])
       IN /\ recvBy' = [recvBy EXCEPT ![next] = Append(@, w)]
          /\ IF Len(j) # 2
             THEN Abandon(w, "Fail", iter)
             ELSE Proceed(w, iter, "svc")
    /\ IF next < Len(svcNamespacedName)
       THEN pcMain' = "add" /\ next' = next + 1
       ELSE pcMain' = "wait" /\ next' = next
    /\ UNCHANGED <<svcNamespacedName, Concurrency, VerboseChanged, stdout, runErr, group, lock, dur, rows,
                   rawRows, measureFinalResult, report, doneOf, merges>>

\* servingClient.Services(svcNs).Get and what follows it up to the
\* configuration lookup.
GetService(w) ==
    /\ Running /\ pc[w] = "svc"
    /\ \E a \in SvcAnswers(svcNamespacedName[it[w].j][1]) :
        LET iter == With(it[w], [call |-> "svc", err |-> a.err, svcIns |-> a.obj])
            svcCreatedTime == Rfc3339Copy(a.obj.created)
            svcConfigurationsReady == TransitionTime(a.obj, "ConfigurationsReady")
            svcRoutesReady == TransitionTime(a.obj, "RoutesReady")
        IN IF a.err # NoErr
           THEN /\ IF Contains(a.err.msg, <<"not", "found">>)
                   THEN Abandon(w, "NotFound", iter)
                   ELSE Abandon(w, "Fail", iter)
                /\ dur' = dur
           ELSE IF ~a.obj.ready
           THEN Abandon(w, "NotReady", iter) /\ dur' = dur
           ELSE IF svcConfigurationsReady = Absent \/ svcRoutesReady = Absent
           THEN NilDereference(w, iter) /\ dur' = dur
           ELSE /\ Proceed(w, With(iter, [svcCreatedTime |-> svcCreatedTime,
                                          svcConfigurationsReady |-> svcConfigurationsReady,
                                          svcRoutesReady |-> svcRoutesReady]), "cfg")
                /\ dur' = [dur EXCEPT ![w] = With(@,
                       [svcConfigurationsReadyDuration |-> Sub(svcConfigurationsReady, svcCreatedTime),
                        svcRoutesReadyDuration |-> Sub(svcRoutesReady, svcCreatedTime),
                        svcReadyDuration |-> Sub(svcRoutesReady, svcCreatedTime)])]
    /\ UNCHANGED <<svcNamespacedName, Concurrency, VerboseChanged, stdout, pcMain, next, runErr, group, lock,
                   rows, rawRows, measureFinalResult, report, recvBy, doneOf, merges>>

\* GroupDone with group.Done() called a second time.
GroupDoneTwice(w) ==
    /\ Running /\ pc[w] = "done"
    /\ group' = group - 2
    /\ panicked' = IF group - 2 < 0 THEN "sync: negative WaitGroup counter" ELSE panicked
    /\ doneOf' = [doneOf EXCEPT ![it[w].j] = @ + 2]
    /\ it' = [it EXCEPT ![w] = ZeroIteration]
    /\ pc' = [pc EXCEPT ![w] = "recv"]
    /\ UNCHANGED <<svcNamespacedName, Concurrency, VerboseChanged, stdout, pcMain, next, runErr, lock,
                   workerMeasureResults, currentMeasureResult, dur, rows, rawRows,
                   measureFinalResult, report, recvBy, classOf, merges>>

\* group.Done() and continue: the iteration's variables go out of scope and
\* the worker is back at the receive.
GroupDone(w) ==
    /\ Running /\ pc[w] = "done"
    /\ group' = group - 1
    /\ panicked' = IF group - 1 < 0 THEN "sync: negative WaitGroup counter" ELSE panicked
    /\ doneOf' = [doneOf EXCEPT ![it[w].j] = @ + 1]
    /\ it' = [it EXCEPT ![w] = ZeroIteration]
    /\ pc' = [pc EXCEPT ![w] = "recv"]
    /\ UNCHANGED <<svcNamespacedName, Concurrency, VerboseChanged, stdout, pcMain, next, runErr, lock,
                   workerMeasureResults, currentMeasureResult, dur, rows, rawRows,
                   measureFinalResult, report, recvBy, classOf, merges>>

\* GetConfiguration without the "continue" of its error branch: the chain
\* goes on to the revision lookup.
GetConfigurationGoesOn(w) ==
    /\ Running /\ pc[w] = "cfg"
    /\ \E a \in CfgAnswers :
        LET iter == With(it[w], [call |-> "cfg", err |-> a.err])
        IN Proceed(w, iter, "rev")
    /\ UNCHANGED <<svcNamespacedName, Concurrency, VerboseChanged, stdout, pcMain, next,
                   runErr, group, lock, dur, rows, rawRows, measureFinalResult, report,
                   recvBy, doneOf, merges>>

\* A later Get (configuration): servingClient.Configurations(svcNs).Get
GetConfiguration(w) ==
    /\ Running /\ pc[w] = "cfg"
    /\ \E a \in CfgAnswers :
        LET iter == With(it[w], [call |-> "cfg", err |-> a.err])
        IN IF a.err # NoErr
           THEN Abandon(w, "NotReady", iter)
           ELSE Proceed(w, iter, "rev")
    /\ UNCHANGED <<svcNamespacedName, Concurrency, VerboseChanged, stdout, pcMain, next, runErr, group, lock,
                   dur, rows, rawRows, measureFinalResult, report, recvBy, doneOf,
                   merges>>

\* servingClient.Revisions(svcNs).Get(revisionName)
GetRevision(w) ==
    /\ Running /\ pc[w] = "rev"
    /\ \E a \in RevAnswers :
        LET iter == With(it[w], [call |-> "rev", err |-> a.err])
            revisionCreatedTime == Rfc3339Copy(a.obj.created)
            revisionReadyTime == TransitionTime(a.obj, "Ready")
        IN IF a.err # NoErr
           THEN Abandon(w, "NotReady", iter)
           ELSE IF revisionReadyTime = Absent
           THEN NilDereference(w, iter)
           ELSE Proceed(w, With(iter, [revisionCreatedTime |-> revisionCreatedTime,
                                       revisionReadyTime |-> revisionReadyTime,
                                       revisionReadyDuration |->
                                           Sub(revisionReadyTime, revisionCreatedTime)]),
                        "pods")
    /\ UNCHANGED <<svcNamespacedName, Concurrency, VerboseChanged, stdout, pcMain, next, runErr, group, lock,
                   dur, rows, rawRows, measureFinalResult, report, recvBy, doneOf,
                   merges>>

\* params.ClientSet.CoreV1().Pods(svcNs).List
ListPods(w) ==
    /\ Running /\ pc[w] = "pods"
    /\ \E a \in PodListAnswers :
        LET iter == With(it[w], [call |-> "pods", err |-> a.err])
        IN IF a.err # NoErr
           THEN Abandon(w, "NotReady", iter)
           ELSE Proceed(w, With(iter, [podList |-> a.items]), "deploy")
    /\ UNCHANGED <<svcNamespacedName, Concurrency, VerboseChanged, stdout, pcMain, next, runErr, group, lock,
                   dur, rows, rawRows, measureFinalResult, report, recvBy, doneOf,
                   merges>>

\* The block "if len(podList.Items) > 0 { ... }" on the first pod, as the
\* stage it stops at and the variables it has assigned by then:
\*   stop = "NotReady" (a condition or container status is not present),
\*          "panic" (State.Running is nil) or "" (the block ran to its end).
PodBlock(iter, d) ==
    IF Len(iter.podList) = 0 THEN [stop |-> "", iter |-> iter, dur |-> d]
    ELSE
    LET pod == iter.podList[1]
        i1 == With(iter, [podCreatedTime |-> Rfc3339Copy(pod.created)])
        sched == getPodCondition(pod, "PodScheduled")
        i2 == With(i1, [podScheduledTime |-> Rfc3339Copy(pod.conds[sched + 1].t)])
        cready == getPodCondition(pod, "ContainersReady")
        i3 == With(i2, [containersReadyTime |-> Rfc3339Copy(pod.conds[cready + 1].t)])
        d3 == With(d, [podScheduledDuration |-> Sub(i3.podScheduledTime, i3.podCreatedTime),
                       containersReadyDuration |-> Sub(i3.containersReadyTime, i3.podCreatedTime)])
        queueProxyStatus == getContainerStatus(pod.containers, "queue-proxy")
        i4 == With(i3, [queueProxyStartedTime |-> Rfc3339Copy(queueProxyStatus.s.running)])
        userContrainerStatus == getContainerStatus(pod.containers, "user-container")
        i5 == With(i4, [userContrainerStartedTime |-> Rfc3339Copy(userContrainerStatus.s.running)])
        d5 == With(d3, [queueProxyStartedDuration |-> Sub(i5.queueProxyStartedTime, i5.podCreatedTime),
                        userContrainerStartedDuration |-> Sub(i5.userContrainerStartedTime, i5.podCreatedTime)])
    IN IF sched = -1 THEN [stop |-> "NotReady", iter |-> i1, dur |-> d]
       ELSE IF cready = -1 THEN [stop |-> "NotReady", iter |-> i2, dur |-> d]
       ELSE IF ~queueProxyStatus.found THEN [stop |-> "NotReady", iter |-> i3, dur |-> d3]
       ELSE IF queueProxyStatus.s.running = Absent THEN [stop |-> "panic", iter |-> i3, dur |-> d3]
       ELSE IF ~userContrainerStatus.found THEN [stop |-> "NotReady", iter |-> i4, dur |-> d3]
       ELSE IF userContrainerStatus.s.running = Absent THEN [stop |-> "panic", iter |-> i4, dur |-> d3]
       ELSE [stop |-> "", iter |-> i5, dur |-> d5]

\* params.ClientSet.AppsV1().Deployments(svcNs).Get and, after it, the pod
\* block, up to the autoscaler lookup.
GetDeployment(w) ==
    /\ Running /\ pc[w] = "deploy"
    /\ \E a \in DeployAnswers :
        LET iter == With(it[w], [call |-> "deploy", err |-> a.err])
            deploymentCreatedTime == Rfc3339Copy(a.obj.created)
            got == With(iter, [deploymentCreatedTime |-> deploymentCreatedTime,
                               deploymentCreatedDuration |->
                                   Sub(deploymentCreatedTime, iter.revisionCreatedTime)])
            blk == PodBlock(got, dur[w])
        IN IF a.err # NoErr
           THEN Abandon(w, "NotReady", iter) /\ dur' = dur
           ELSE /\ dur' = [dur EXCEPT ![w] = blk.dur]
                /\ CASE blk.stop = "NotReady" -> Abandon(w, "NotReady", blk.iter)
                     [] blk.stop = "panic" -> NilDereference(w, blk.iter)
                     [] OTHER -> Proceed(w, blk.iter, "kpa")
    /\ UNCHANGED <<svcNamespacedName, Concurrency, VerboseChanged, stdout, pcMain, next, runErr, group, lock,
                   rows, rawRows, measureFinalResult, report, recvBy, doneOf, merges>>

\* GetPodAutoscaler with the error branch counting FailCount.
GetPodAutoscalerCountsFail(w) ==
    /\ Running /\ pc[w] = "kpa"
    /\ \E a \in KpaAnswers :
        LET iter == With(it[w], [call |-> "kpa", err |-> a.err])
            kpaCreatedTime == Rfc3339Copy(a.obj.created)
            kpaActiveTime == TransitionTime(a.obj, "Active")
        IN IF a.err # NoErr
           THEN Abandon(w, "Fail", iter)
           ELSE IF kpaActiveTime = Absent
           THEN NilDereference(w, iter)
           ELSE Proceed(w, With(iter, [kpaCreatedTime |-> kpaCreatedTime,
                                       kpaActiveTime |-> kpaActiveTime,
                                       kpaActiveDuration |-> Sub(kpaActiveTime, kpaCreatedTime)]),
                        "sks")
    /\ UNCHANGED <<svcNamespacedName, Concurrency, VerboseChanged, stdout, pcMain, next, runErr, group, lock,
                   dur, rows, rawRows, measureFinalResult, report, recvBy, doneOf,
                   merges>>

\* autoscalingClient.PodAutoscalers(svcNs).Get(revisionName)
GetPodAutoscaler(w) ==
    /\ Running /\ pc[w] = "kpa"
    /\ \E a \in KpaAnswers :
        LET iter == With(it[w], [call |-> "kpa", err |-> a.err])
            kpaCreatedTime == Rfc3339Copy(a.obj.created)
            kpaActiveTime == TransitionTime(a.obj, "Active")
        IN IF a.err # NoErr
           THEN Abandon(w, "NotReady", iter)
           ELSE IF kpaActiveTime = Absent
           THEN NilDereference(w, iter)
           ELSE Proceed(w, With(iter, [kpaCreatedTime |-> kpaCreatedTime,
                                       kpaActiveTime |-> kpaActiveTime,
                                       kpaActiveDuration |-> Sub(kpaActiveTime, kpaCreatedTime)]),
                        "sks")
    /\ UNCHANGED <<svcNamespacedName, Concurrency, VerboseChanged, stdout, pcMain, next, runErr, group, lock,
                   dur, rows, rawRows, measureFinalResult, report, recvBy, doneOf,
                   merges>>

\* nwclient.ServerlessServices(svcNs).Get(revisionName)
GetServerlessService(w) ==
    /\ Running /\ pc[w] = "sks"
    /\ \E a \in SksAnswers :
        LET iter == With(it[w], [call |-> "sks", err |-> a.err])
            sksCreatedTime == Rfc3339Copy(a.obj.created)
            sksActivatorEndpointsPopulatedTime == TransitionTime(a.obj, "ActivatorEndpointsPopulated")
            sksEndpointsPopulatedTime == TransitionTime(a.obj, "EndpointsPopulated")
            sksReadyTime == TransitionTime(a.obj, "Ready")
        IN IF a.err # NoErr
           THEN Abandon(w, "NotReady", iter)
           ELSE IF Absent \in {sksActivatorEndpointsPopulatedTime, sksEndpointsPopulatedTime,
                               sksReadyTime}
           THEN NilDereference(w, iter)
           ELSE Proceed(w, With(iter,
                    [sksCreatedTime |-> sksCreatedTime,
                     sksActivatorEndpointsPopulatedTime |-> sksActivatorEndpointsPopulatedTime,
                     sksEndpointsPopulatedTime |-> sksEndpointsPopulatedTime,
                     sksReadyTime |-> sksReadyTime,
                     sksActivatorEndpointsPopulatedDuration |->
                         Sub(sksActivatorEndpointsPopulatedTime, sksCreatedTime),
                     sksEndpointsPopulatedDuration |-> Sub(sksEndpointsPopulatedTime, sksCreatedTime),
                     sksReadyDuration |-> Sub(sksReadyTime, sksCreatedTime)]),
                        "ing")
    /\ UNCHANGED <<svcNamespacedName, Concurrency, VerboseChanged, stdout, pcMain, next, runErr, group, lock,
                   dur, rows, rawRows, measureFinalResult, report, recvBy, doneOf,
                   merges>>

\* GetIngress with the load-balancer-ready duration measured from the
\* creation of the ingress.
GetIngressLoadBalancerFromCreation(w) ==
    /\ Running /\ pc[w] = "ing"
    /\ \E a \in IngAnswers :
        LET iter == With(it[w], [call |-> "ing", err |-> a.err])
            ingressCreatedTime == Rfc3339Copy(a.obj.created)
            ingressNetworkConfiguredTime == TransitionTime(a.obj, "NetworkConfigured")
            ingressLoadBalancerReadyTime == TransitionTime(a.obj, "LoadBalancerReady")
        IN IF a.err # NoErr
           THEN Abandon(w, "NotReady", iter)
           ELSE IF Absent \in {ingressNetworkConfiguredTime, ingressLoadBalancerReadyTime}
           THEN NilDereference(w, iter)
           ELSE Proceed(w, With(iter,
                    [ingressCreatedTime |-> ingressCreatedTime,
                     ingressNetworkConfiguredTime |-> ingressNetworkConfiguredTime,
                     ingressLoadBalancerReadyTime |-> ingressLoadBalancerReadyTime,
                     ingressNetworkConfiguredDuration |->
                         Sub(ingressNetworkConfiguredTime, ingressCreatedTime),
                     ingressLoadBalancerReadyDuration |->
                         Sub(ingressLoadBalancerReadyTime, ingressCreatedTime),
                     ingressReadyDuration |-> Sub(ingressLoadBalancerReadyTime, ingressCreatedTime)]),
                        "lock")
    /\ UNCHANGED <<svcNamespacedName, Concurrency, VerboseChanged, stdout, pcMain, next,
                   runErr, group, lock, dur, rows, rawRows, measureFinalResult, report,
                   recvBy, doneOf, merges>>

\* nwclient.Ingresses(svcNs).Get(svc), up to lock.Lock()
GetIngress(w) ==
    /\ Running /\ pc[w] = "ing"
    /\ \E a \in IngAnswers :
        LET iter == With(it[w], [call |-> "ing", err |-> a.err])
            ingressCreatedTime == Rfc3339Copy(a.obj.created)
            ingressNetworkConfiguredTime == TransitionTime(a.obj, "NetworkConfigured")
            ingressLoadBalancerReadyTime == TransitionTime(a.obj, "LoadBalancerReady")
        IN IF a.err # NoErr
           THEN Abandon(w, "NotReady", iter)
           ELSE IF Absent \in {ingressNetworkConfiguredTime, ingressLoadBalancerReadyTime}
           THEN NilDereference(w, iter)
           ELSE Proceed(w, With(iter,
                    [ingressCreatedTime |-> ingressCreatedTime,
                     ingressNetworkConfiguredTime |-> ingressNetworkConfiguredTime,
                     ingressLoadBalancerReadyTime |-> ingressLoadBalancerReadyTime,
                     ingressNetworkConfiguredDuration |->
                         Sub(ingressNetworkConfiguredTime, ingressCreatedTime),
                     ingressLoadBalancerReadyDuration |->
                         Sub(ingressLoadBalancerReadyTime, ingressNetworkConfiguredTime),
                     ingressReadyDuration |-> Sub(ingressLoadBalancerReadyTime, ingressCreatedTime)]),
                        "lock")
    /\ UNCHANGED <<svcNamespacedName, Concurrency, VerboseChanged, stdout, pcMain, next, runErr, group, lock,
                   dur, rows, rawRows, measureFinalResult, report, recvBy, doneOf,
                   merges>>

\* d.Seconds(), for a duration between two timestamps at second resolution.
Seconds(d) == d \div TicksPerSecond

\* DurationsRow with overall_ready taken from the configuration-ready
\* duration.
DurationsRowOverallFromConfiguration(target, iter, d) ==
    [svc |-> target[1], svcNs |-> target[2],
     configuration_ready |-> Seconds(d.svcConfigurationsReadyDuration),
     revision_ready |-> Seconds(iter.revisionReadyDuration),
     deployment_created |-> Seconds(iter.deploymentCreatedDuration),
     pod_scheduled |-> Seconds(d.podScheduledDuration),
     containers_ready |-> Seconds(d.containersReadyDuration),
     queue_proxy_started |-> Seconds(d.queueProxyStartedDuration),
     user_container_started |-> Seconds(d.userContrainerStartedDuration),
     route_ready |-> Seconds(d.svcRoutesReadyDuration),
     kpa_active |-> Seconds(iter.kpaActiveDuration),
     sks_ready |-> Seconds(iter.sksReadyDuration),
     sks_activator_endpoints_populated |->
         Seconds(iter.sksActivatorEndpointsPopulatedDuration),
     sks_endpoints_populated |-> Seconds(iter.sksEndpointsPopulatedDuration),
     ingress_ready |-> Seconds(iter.ingressReadyDuration),
     ingress_config_ready |-> Seconds(iter.ingressNetworkConfiguredDuration),
     ingress_lb_ready |-> Seconds(iter.ingressLoadBalancerReadyDuration),
     overall_ready |-> Seconds(d.svcConfigurationsReadyDuration)]

\* The durations row appended to rows: int(d.Seconds()) of each duration,
\* which is a whole number of seconds.
DurationsRow(target, iter, d) ==
    [svc |-> target[1], svcNs |-> target[2],
     configuration_ready |-> Seconds(d.svcConfigurationsReadyDuration),
     revision_ready |-> Seconds(iter.revisionReadyDuration),
     deployment_created |-> Seconds(iter.deploymentCreatedDuration),
     pod_scheduled |-> Seconds(d.podScheduledDuration),
     containers_ready |-> Seconds(d.containersReadyDuration),
     queue_proxy_started |-> Seconds(d.queueProxyStartedDuration),
     user_container_started |-> Seconds(d.userContrainerStartedDuration),
     route_ready |-> Seconds(d.svcRoutesReadyDuration),
     kpa_active |-> Seconds(iter.kpaActiveDuration),
     sks_ready |-> Seconds(iter.sksReadyDuration),
     sks_activator_endpoints_populated |->
         Seconds(iter.sksActivatorEndpointsPopulatedDuration),
     sks_endpoints_populated |-> Seconds(iter.sksEndpointsPopulatedDuration),
     ingress_ready |-> Seconds(iter.ingressReadyDuration),
     ingress_config_ready |-> Seconds(iter.ingressNetworkConfiguredDuration),
     ingress_lb_ready |-> Seconds(iter.ingressLoadBalancerReadyDuration),
     overall_ready |-> Seconds(d.svcReadyDuration)]

\* The raw-timestamp row appended to rawRows.
RawRow(target, iter) ==
    [svc |-> target[1], svcNs |-> target[2],
     svc_created |-> iter.svcCreatedTime,
     configuration_ready |-> iter.svcConfigurationsReady,
     revision_created |-> iter.revisionCreatedTime,
     revision_ready |-> iter.revisionReadyTime,
     deployment_created |-> iter.deploymentCreatedTime,
     pod_created |-> iter.podCreatedTime,
     pod_scheduled |-> iter.podScheduledTime,
     containers_ready |-> iter.containersReadyTime,
     queue_proxy_started |-> iter.queueProxyStartedTime,
     user_container_started |-> iter.userContrainerStartedTime,
     route_ready |-> iter.svcRoutesReady,
     kpa_created |-> iter.kpaCreatedTime,
     kpa_active |-> iter.kpaActiveTime,
     sks_created |-> iter.sksCreatedTime,
     sks_activator_endpoints_populated |-> iter.sksActivatorEndpointsPopulatedTime,
     sks_endpoints_populated |-> iter.sksEndpointsPopulatedTime,
     ingress_created |-> iter.ingressCreatedTime,
     ingress_config_ready |-> iter.ingressNetworkConfiguredTime,
     ingress_lb_ready |-> iter.ingressLoadBalancerReadyTime]

\* currentMeasureResult.Sums.X += ...Duration.Seconds(), and the sample.
AddSample(m, iter, d) ==
    [m EXCEPT
        !.Sums = [SvcConfigurationsReadySum |-> @.SvcConfigurationsReadySum
                      + Seconds(d.svcConfigurationsReadyDuration),
                  RevisionReadySum |-> @.RevisionReadySum + Seconds(iter.revisionReadyDuration),
                  DeploymentCreatedSum |-> @.DeploymentCreatedSum
                      + Seconds(iter.deploymentCreatedDuration),
                  PodScheduledSum |-> @.PodScheduledSum + Seconds(d.podScheduledDuration),
                  ContainersReadySum |-> @.ContainersReadySum + Seconds(d.containersReadyDuration),
                  QueueProxyStartedSum |-> @.QueueProxyStartedSum
                      + Seconds(d.queueProxyStartedDuration),
                  UserContrainerStartedSum |-> @.UserContrainerStartedSum
                      + Seconds(d.userContrainerStartedDuration),
                  SvcRoutesReadySum |-> @.SvcRoutesReadySum + Seconds(d.svcRoutesReadyDuration),
                  KpaActiveSum |-> @.KpaActiveSum + Seconds(iter.kpaActiveDuration),
                  SksReadySum |-> @.SksReadySum + Seconds(iter.sksReadyDuration),
                  SksActivatorEndpointsPopulatedSum |-> @.SksActivatorEndpointsPopulatedSum
                      + Seconds(iter.sksActivatorEndpointsPopulatedDuration),
                  SksEndpointsPopulatedSum |-> @.SksEndpointsPopulatedSum
                      + Seconds(iter.sksEndpointsPopulatedDuration),
                  IngressReadySum |-> @.IngressReadySum + Seconds(iter.ingressReadyDuration),
                  IngressNetworkConfiguredSum |-> @.IngressNetworkConfiguredSum
                      + Seconds(iter.ingressNetworkConfiguredDuration),
                  IngressLoadBalancerReadySum |-> @.IngressLoadBalancerReadySum
                      + Seconds(iter.ingressLoadBalancerReadyDuration),
                  SvcReadySum |-> @.SvcReadySum + Seconds(d.svcReadyDuration)],
        !.SvcReadyTime = Append(@, Seconds(d.svcReadyDuration))]

\* Lock that does not wait for the mutex to be free.
LockNoWait(w) ==
    /\ Running /\ pc[w] = "lock"
    /\ lock' = TRUE
    /\ pc' = [pc EXCEPT ![w] = "row"]
    /\ UNCHANGED <<svcNamespacedName, Concurrency, VerboseChanged, stdout, pcMain, next,
                   runErr, group, workerMeasureResults, currentMeasureResult, dur, it,
                   rows, rawRows, measureFinalResult, report, panicked, recvBy, classOf,
                   doneOf, merges>>

\* lock.Lock()
Lock(w) ==
    /\ Running /\ pc[w] = "lock"
    /\ ~lock
    /\ lock' = TRUE
    /\ pc' = [pc EXCEPT ![w] = "row"]
    /\ UNCHANGED <<svcNamespacedName, Concurrency, VerboseChanged, stdout, pcMain, next, runErr, group,
                   workerMeasureResults, currentMeasureResult, dur, it, rows, rawRows,
                   measureFinalResult, report, panicked, recvBy, classOf, doneOf,
                   merges>>

\* currentMeasureResult.Service.ReadyCount++; rows = append(rows, ...)
AppendRow(w) ==
    /\ Running /\ pc[w] = "row"
    /\ currentMeasureResult' = [currentMeasureResult EXCEPT ![w] = Increment(@, "Ready")]
    /\ rows' = Append(rows, DurationsRow(svcNamespacedName[it[w].j], it[w], dur[w]))
    /\ it' = [it EXCEPT ![w] = With(@, [class |-> "Ready"])]
    /\ classOf' = [classOf EXCEPT ![it[w].j] = Append(@, "Ready")]
    /\ pc' = [pc EXCEPT ![w] = "rawRow"]
    /\ UNCHANGED <<svcNamespacedName, Concurrency, VerboseChanged, stdout, pcMain, next, runErr, group, lock,
                   workerMeasureResults, dur, rawRows, measureFinalResult, report,
                   panicked, recvBy, doneOf, merges>>

\* AppendRawRow that appends the raw row twice.
AppendRawRowTwice(w) ==
    /\ Running /\ pc[w] = "rawRow"
    /\ rawRows' = Append(Append(rawRows, RawRow(svcNamespacedName[it[w].j], it[w])),
                         RawRow(svcNamespacedName[it[w].j], it[w]))
    /\ pc' = [pc EXCEPT ![w] = "verbose"]
    /\ UNCHANGED <<svcNamespacedName, Concurrency, VerboseChanged, stdout, pcMain, next,
                   runErr, group, lock, workerMeasureResults, currentMeasureResult, dur,
                   it, rows, measureFinalResult, report, panicked, recvBy, classOf,
                   doneOf, merges>>

\* rawRows = append(rawRows, ...)
AppendRawRow(w) ==
    /\ Running /\ pc[w] = "rawRow"
    /\ rawRows' = Append(rawRows, RawRow(svcNamespacedName[it[w].j], it[w]))
    /\ pc' = [pc EXCEPT ![w] = "verbose"]
    /\ UNCHANGED <<svcNamespacedName, Concurrency, VerboseChanged, stdout, pcMain, next, runErr, group, lock,
                   workerMeasureResults, currentMeasureResult, dur, it, rows,
                   measureFinalResult, report, panicked, recvBy, classOf, doneOf,
                   merges>>

\* The [Verbose] lines printed for one target: its name and each duration
\* as d.Seconds().
VerboseBlock(target, iter, d) ==
    [svc |-> target[1],
     durations |-> [x \in DOMAIN d |-> Seconds(d[x])],
     revisionReadyDuration |-> Seconds(iter.revisionReadyDuration),
     deploymentCreatedDuration |-> Seconds(iter.deploymentCreatedDuration),
     kpaActiveDuration |-> Seconds(iter.kpaActiveDuration),
     sksReadyDuration |-> Seconds(iter.sksReadyDuration),
     sksActivatorEndpointsPopulatedDuration |->
         Seconds(iter.sksActivatorEndpointsPopulatedDuration),
     sksEndpointsPopulatedDuration |-> Seconds(iter.sksEndpointsPopulatedDuration),
     ingressReadyDuration |-> Seconds(iter.ingressReadyDuration),
     ingressNetworkConfiguredDuration |-> Seconds(iter.ingressNetworkConfiguredDuration),
     ingressLoadBalancerReadyDuration |-> Seconds(iter.ingressLoadBalancerReadyDuration)]

\* Verbose that counts the target once more when the option is on.
VerboseCountsAgain(w) ==
    /\ Running /\ pc[w] = "verbose"
    /\ stdout' = IF VerboseChanged
                 THEN Append(stdout, VerboseBlock(svcNamespacedName[it[w].j], it[w], dur[w]))
                 ELSE stdout
    /\ currentMeasureResult' = IF VerboseChanged
                               THEN [currentMeasureResult EXCEPT ![w] = Increment(@, "Ready")]
                               ELSE currentMeasureResult
    /\ pc' = [pc EXCEPT ![w] = "sums"]
    /\ UNCHANGED <<svcNamespacedName, Concurrency, VerboseChanged, pcMain, next, runErr,
                   group, lock, workerMeasureResults, dur, it, rows, rawRows,
                   measureFinalResult, report, panicked, recvBy, classOf, doneOf, merges>>

\* if options.VerboseChanged { fmt.Printf("[Verbose] ...") ... }
Verbose(w) ==
    /\ Running /\ pc[w] = "verbose"
    /\ stdout' = IF VerboseChanged
                 THEN Append(stdout, VerboseBlock(svcNamespacedName[it[w].j], it[w], dur[w]))
                 ELSE stdout
    /\ pc' = [pc EXCEPT ![w] = "sums"]
    /\ UNCHANGED <<svcNamespacedName, Concurrency, VerboseChanged, pcMain, next, runErr,
                   group, lock, workerMeasureResults, currentMeasureResult, dur, it,
                   rows, rawRows, measureFinalResult, report, panicked, recvBy, classOf,
                   doneOf, merges>>

\* The sums, the sample and workerMeasureResults[index] = currentMeasureResult
Accumulate(w) ==
    /\ Running /\ pc[w] = "sums"
    /\ currentMeasureResult' = [currentMeasureResult EXCEPT ![w] = AddSample(@, it[w], dur[w])]
    /\ workerMeasureResults' = [workerMeasureResults EXCEPT ![w] = currentMeasureResult'[w]]
    /\ pc' = [pc EXCEPT ![w] = "unlock"]
    /\ UNCHANGED <<svcNamespacedName, Concurrency, VerboseChanged, stdout, pcMain, next, runErr, group, lock,
                   dur, it, rows, rawRows, measureFinalResult, report, panicked,
                   recvBy, classOf, doneOf, merges>>

\* lock.Unlock()
Unlock(w) ==
    /\ Running /\ pc[w] = "unlock"
    /\ lock' = FALSE
    /\ pc' = [pc EXCEPT ![w] = "done"]
    /\ UNCHANGED <<svcNamespacedName, Concurrency, VerboseChanged, stdout, pcMain, next, runErr, group,
                   workerMeasureResults, currentMeasureResult, dur, it, rows, rawRows,
                   measureFinalResult, report, panicked, recvBy, classOf, doneOf,
                   merges>>

\* ------------------------------------------------------- merge and report
\* MergeSlot with the line that adds FailCount left out.
MergeSlotWithoutFail(f, r) ==
    [ReadyCount |-> f.ReadyCount + r.ReadyCount,
     NotReadyCount |-> f.NotReadyCount + r.NotReadyCount,
     NotFoundCount |-> f.NotFoundCount + r.NotFoundCount,
     FailCount |-> f.FailCount,
     Sums |-> [x \in DOMAIN f.Sums |-> f.Sums[x] + r.Sums[x]],
     SvcReadyTime |-> f.SvcReadyTime \o r.SvcReadyTime]

\* MergeSlot with ReadyCount assigned instead of added.
MergeSlotAssignsReady(f, r) ==
    [ReadyCount |-> r.ReadyCount,
     NotReadyCount |-> f.NotReadyCount + r.NotReadyCount,
     NotFoundCount |-> f.NotFoundCount + r.NotFoundCount,
     FailCount |-> f.FailCount + r.FailCount,
     Sums |-> [x \in DOMAIN f.Sums |-> f.Sums[x] + r.Sums[x]],
     SvcReadyTime |-> f.SvcReadyTime \o r.SvcReadyTime]

\* One pass of the merge loop: slot i added to the final result.
MergeSlot(f, r) ==
    [ReadyCount |-> f.ReadyCount + r.ReadyCount,
     NotReadyCount |-> f.NotReadyCount + r.NotReadyCount,
     NotFoundCount |-> f.NotFoundCount + r.NotFoundCount,
     FailCount |-> f.FailCount + r.FailCount,
     Sums |-> [x \in DOMAIN f.Sums |-> f.Sums[x] + r.Sums[x]],
     SvcReadyTime |-> f.SvcReadyTime \o r.SvcReadyTime]

\* for i := 0; i < inputs.Concurrency; i++ { ... }
RECURSIVE MergeLoop(_, _, _, _)
MergeLoop(f, results, i, n) ==
    IF i < n THEN MergeLoop(MergeSlot(f, results[i]), results, i + 1, n) ELSE f

Merge ==
    /\ Running /\ pcMain = "merge"
    /\ measureFinalResult' = MergeLoop(measureFinalResult, workerMeasureResults, 0, Concurrency)
    /\ merges' = merges + 1
    /\ pcMain' = "sort"
    /\ UNCHANGED <<svcNamespacedName, Concurrency, VerboseChanged, stdout, next, runErr, group, lock,
                   workerMeasureResults, currentMeasureResult, pc, dur, it, rows,
                   rawRows, report, panicked, recvBy, classOf, doneOf>>

\* The key sortSlice compares rows by: the integer parsed from the second
\* "-"-separated part of the service name.
SortKey(row) == ParseInt(Split(row.svc, "-")[2])

\* less(i, j) of sortSlice: indexa < indexb
Less(a, b) == SortKey(a) < SortKey(b)

\* One pass of the insertion sort sort.Slice runs on a slice of at most 12
\* elements: x moves left past every element it is less than.
RECURSIVE InsertSorted(_, _)
InsertSorted(sorted, x) ==
    IF sorted = <<>> \/ ~Less(x, sorted[Len(sorted)])
    THEN Append(sorted, x)
    ELSE Append(InsertSorted(SubSeq(sorted, 1, Len(sorted) - 1), x), sorted[Len(sorted)])

\* sort.Slice(rows, less)
RECURSIVE sortSlice(_)
sortSlice(t) ==
    IF t = <<>> THEN <<>>
    ELSE InsertSorted(sortSlice(SubSeq(t, 1, Len(t) - 1)), t[Len(t)])

\* The header rows put in front of the two tables.
RowsHeader ==
    [svc |-> "svc_name", svcNs |-> "svc_namespace",
     configuration_ready |-> "configuration_ready", revision_ready |-> "revision_ready",
     deployment_created |-> "deployment_created", pod_scheduled |-> "pod_scheduled",
     containers_ready |-> "containers_ready", queue_proxy_started |-> "queue-proxy_started",
     user_container_started |-> "user-container_started", route_ready |-> "route_ready",
     kpa_active |-> "kpa_active", sks_ready |-> "sks_ready",
     sks_activator_endpoints_populated |-> "sks_activator_endpoints_populated",
     sks_endpoints_populated |-> "sks_endpoints_populated",
     ingress_ready |-> "ingress_ready", ingress_config_ready |-> "ingress_config_ready",
     ingress_lb_ready |-> "ingress_lb_ready", overall_ready |-> "overall_ready"]
RawRowsHeader ==
    [svc |-> "svc_name", svcNs |-> "svc_namespace", svc_created |-> "svc_created",
     configuration_ready |-> "configuration_ready", revision_created |-> "revision_created",
     revision_ready |-> "revision_ready", deployment_created |-> "deployment_created",
     pod_created |-> "pod_created", pod_scheduled |-> "pod_scheduled",
     containers_ready |-> "containers_ready", queue_proxy_started |-> "queue-proxy_started",
     user_container_started |-> "user-container_started", route_ready |-> "route_ready",
     kpa_created |-> "kpa_created", kpa_active |-> "kpa_active",
     sks_created |-> "sks_created",
     sks_activator_endpoints_populated |-> "sks_activator_endpoints_populated",
     sks_endpoints_populated |-> "sks_endpoints_populated",
     ingress_created |-> "ingress_created", ingress_config_ready |-> "ingress_config_ready",
     ingress_lb_ready |-> "ingress_lb_ready"]

\* sortSlice(rows); sortSlice(rawRows); then the headers.  The comparison
\* indexes the second part of a name: a name without "-" panics as soon as
\* two rows are compared.
SortTables ==
    /\ Running /\ pcMain = "sort"
    /\ IF Len(rows) >= 2 /\ \E k \in 1..Len(rows) : Len(Split(rows[k].svc, "-")) < 2
       THEN /\ panicked' = "index out of range"
            /\ UNCHANGED <<rows, rawRows, pcMain>>
       ELSE /\ rows' = <<RowsHeader>> \o sortSlice(rows)
            /\ rawRows' = <<RawRowsHeader>> \o sortSlice(rawRows)
            /\ pcMain' = "report"
            /\ panicked' = panicked
    /\ UNCHANGED <<svcNamespacedName, Concurrency, VerboseChanged, stdout, next, runErr, group, lock,
                   workerMeasureResults, currentMeasureResult, pc, dur, it,
                   measureFinalResult, report, recvBy, classOf, doneOf, merges>>

\* total := ReadyCount + NotReadyCount + NotFoundCount + FailCount
Total(f) == f.ReadyCount + f.NotReadyCount + f.NotFoundCount + f.FailCount

\* ---- github.com/montanaflynn/stats, as called on SvcReadyTime ----
\* A float64 that is not a number.
NaN == Quotient(0, 0)

\* The sum of a sample.
RECURSIVE Sum(_)
Sum(input) == IF input = <<>> THEN 0 ELSE Head(input) + Sum(Tail(input))

\* stats.Mean
Mean(input) == IF Len(input) = 0 THEN NaN ELSE Quotient(Sum(input), Len(input))

\* sortedCopy: a copy of the sample in ascending order.
RECURSIVE InsertAscending(_, _)
InsertAscending(sorted, x) ==
    IF sorted = <<>> \/ sorted[Len(sorted)] <= x
    THEN Append(sorted, x)
    ELSE Append(InsertAscending(SubSeq(sorted, 1, Len(sorted) - 1), x), sorted[Len(sorted)])
RECURSIVE sortedCopy(_)
sortedCopy(input) ==
    IF input = <<>> THEN <<>>
    ELSE InsertAscending(sortedCopy(SubSeq(input, 1, Len(input) - 1)), input[Len(input)])

\* stats.Median: the middle value of the sorted copy, the mean of the two
\* middle values when the length is even.
Median(input) ==
    LET c == sortedCopy(input)
        l == Len(c)
    IN IF l = 0 THEN NaN
       ELSE IF l % 2 = 0 THEN Mean(<<c[l \div 2], c[(l \div 2) + 1]>>)
       ELSE Quotient(c[(l \div 2) + 1], 1)

\* stats.Min, stats.Max
RECURSIVE Min(_)
Min(input) ==
    IF Len(input) = 0 THEN NaN
    ELSE IF Len(input) = 1 THEN Quotient(input[1], 1)
    ELSE LET m == Min(Tail(input))
         IN IF input[1] < m.num THEN Quotient(input[1], 1) ELSE m
RECURSIVE Max(_)
Max(input) ==
    IF Len(input) = 0 THEN NaN
    ELSE IF Len(input) = 1 THEN Quotient(input[1], 1)
    ELSE LET m == Max(Tail(input))
         IN IF input[1] > m.num THEN Quotient(input[1], 1) ELSE m

\* stats.Percentile: index = percent / 100 * len; the value of the sorted
\* copy at a whole index, the mean of the values around a fractional one.
Percentile(input, percent) ==
    LET c == sortedCopy(input)
        i == (percent * Len(c)) \div 100
    IN IF Len(input) = 0 THEN NaN
       ELSE IF Len(input) = 1 THEN Quotient(input[1], 1)
       ELSE IF percent <= 0 \/ percent > 100 THEN NaN
       ELSE IF (percent * Len(c)) % 100 = 0 THEN Quotient(c[i], 1)
       ELSE IF percent * Len(c) > 100 THEN Mean(<<c[i], c[i + 1]>>)
       ELSE NaN

\* Measurement with the overall average taken over the total number of
\* targets.
MeasurementAverageOverTotal(f, total) ==
    [kind |-> "measurement",
     total |-> total,
     printed |-> {"counts", "sums", "averages", "percentages", "OverallTotal",
                  "OverallAverage", "Median", "Min", "Max", "Percentile50",
                  "Percentile90", "Percentile95", "Percentile98", "Percentile99"},
     averages |-> [x \in DOMAIN f.Sums |-> Quotient(f.Sums[x], f.ReadyCount)],
     result |-> [OverallTotal |-> Quotient(f.Sums.SvcReadySum, 1),
                 OverallAverage |-> Quotient(f.Sums.SvcReadySum, total),
                 OverallMedian |-> Median(f.SvcReadyTime),
                 OverallMin |-> Min(f.SvcReadyTime),
                 OverallMax |-> Max(f.SvcReadyTime),
                 P50 |-> Percentile(f.SvcReadyTime, 50),
                 P90 |-> Percentile(f.SvcReadyTime, 90),
                 P95 |-> Percentile(f.SvcReadyTime, 95),
                 P98 |-> Percentile(f.SvcReadyTime, 98),
                 P99 |-> Percentile(f.SvcReadyTime, 99)],
     percentages |-> <<Quotient(f.ReadyCount * 100, total),
                       Quotient(f.NotReadyCount * 100, total),
                       Quotient(f.NotFoundCount * 100, total),
                       Quotient(f.FailCount * 100, total)>>,
     divisors |-> {f.ReadyCount, total},
     files |-> {"raw_ksvc_creation_time.csv", "ksvc_creation_time.csv",
                "ksvc_creation_time.json", "ksvc_creation_time.html"},
     location |-> NoLocation]

\* The report of the branch ReadyCount > 0: the counts, each sum and its
\* average, the counts with their percentages, the overall total, average,
\* median, min, max and percentiles, and the four files.
Measurement(f, total) ==
    [kind |-> "measurement",
     total |-> total,
     printed |-> {"counts", "sums", "averages", "percentages", "OverallTotal",
                  "OverallAverage", "Median", "Min", "Max", "Percentile50",
                  "Percentile90", "Percentile95", "Percentile98", "Percentile99"},
     averages |-> [x \in DOMAIN f.Sums |-> Quotient(f.Sums[x], f.ReadyCount)],
     result |-> [OverallTotal |-> Quotient(f.Sums.SvcReadySum, 1),
                 OverallAverage |-> Quotient(f.Sums.SvcReadySum, f.ReadyCount),
                 OverallMedian |-> Median(f.SvcReadyTime),
                 OverallMin |-> Min(f.SvcReadyTime),
                 OverallMax |-> Max(f.SvcReadyTime),
                 P50 |-> Percentile(f.SvcReadyTime, 50),
                 P90 |-> Percentile(f.SvcReadyTime, 90),
                 P95 |-> Percentile(f.SvcReadyTime, 95),
                 P98 |-> Percentile(f.SvcReadyTime, 98),
                 P99 |-> Percentile(f.SvcReadyTime, 99)],
     percentages |-> <<Quotient(f.ReadyCount * 100, total),
                       Quotient(f.NotReadyCount * 100, total),
                       Quotient(f.NotFoundCount * 100, total),
                       Quotient(f.FailCount * 100, total)>>,
     divisors |-> {f.ReadyCount, total},
     files |-> {"raw_ksvc_creation_time.csv", "ksvc_creation_time.csv",
                "ksvc_creation_time.json", "ksvc_creation_time.html"},
     location |-> NoLocation]

\* The report of the else branch: the counts only.
CountsOnly(f, total) ==
    [kind |-> "counts",
     total |-> total,
     printed |-> {"counts"},
     averages |-> [x \in DOMAIN f.Sums |-> Quotient(0, 1)],
     result |-> ZeroResult,
     percentages |-> <<>>,
     divisors |-> {},
     files |-> {},
     location |-> NoLocation]

\* The measurement report m with the files saved under the answer o of
\* CheckOutputLocation: an error is printed and the files are written all
\* the same.
SavedUnder(m, o) ==
    With(m, [location |-> o,
             printed |-> IF o.err # NoErr
                         THEN m.printed \cup {"failed to check measure output location"}
                         ELSE m.printed])

\* Report without the test of ReadyCount: the measurement branch always.
ReportAlwaysMeasures ==
    /\ Running /\ pcMain = "report"
    /\ \E o \in OutputLocations :
          report' = SavedUnder(Measurement(measureFinalResult, Total(measureFinalResult)), o)
    /\ pcMain' = "returned"
    /\ UNCHANGED <<svcNamespacedName, Concurrency, VerboseChanged, stdout, next, runErr,
                   group, lock, workerMeasureResults, currentMeasureResult, pc, dur, it,
                   rows, rawRows, measureFinalResult, panicked, recvBy, classOf, doneOf,
                   merges>>

\* The final branch on ReadyCount > 0 and "return nil".
Report ==
    /\ Running /\ pcMain = "report"
    /\ \E o \in OutputLocations :
          report' = IF measureFinalResult.ReadyCount > 0
                    THEN SavedUnder(Measurement(measureFinalResult, Total(measureFinalResult)), o)
                    ELSE CountsOnly(measureFinalResult, Total(measureFinalResult))
    /\ pcMain' = "returned"
    /\ UNCHANGED <<svcNamespacedName, Concurrency, VerboseChanged, stdout, next, runErr, group, lock,
                   workerMeasureResults, currentMeasureResult, pc, dur, it, rows,
                   rawRows, measureFinalResult, panicked, recvBy, classOf, doneOf,
                   merges>>

\* ------------------------------------------------------- the specification
Next ==
    \/ NewClients
    \/ StartWorkers
    \/ CheckTargets
    \/ GroupAdd
    \/ GroupWait
    \/ Merge
    \/ SortTables
    \/ Report
    \/ \E w \in Workers : Receive(w)
    \/ \E w \in Workers : GetService(w)
    \/ \E w \in Workers : GetConfiguration(w)
    \/ \E w \in Workers : GetRevision(w)
    \/ \E w \in Workers : ListPods(w)
    \/ \E w \in Workers : GetDeployment(w)
    \/ \E w \in Workers : GetPodAutoscaler(w)
    \/ \E w \in Workers : GetServerlessService(w)
    \/ \E w \in Workers : GetIngress(w)
    \/ \E w \in Workers : Lock(w)
    \/ \E w \in Workers : AppendRow(w)
    \/ \E w \in Workers : AppendRawRow(w)
    \/ \E w \in Workers : Verbose(w)
    \/ \E w \in Workers : Accumulate(w)
    \/ \E w \in Workers : Unlock(w)
    \/ \E w \in Workers : GroupDone(w)

Spec == Init /\ [][Next]_vars

\* ------------------------------------------------------------- the claims
Merged == merges > 0
\* The items group.Add(1) has been called for.
Added == {i \in Items : i < next \/ (i = next /\ pcMain # "add")}
\* The items worker w received.
ReceivedBy(w) == {i \in Items : \E k \in 1..Len(recvBy[i]) : recvBy[i][k] = w}
\* The items some worker is handling now.
InHand == {it[w].j : w \in Workers} \ {0}

\* C1: once the merge loop has run, the four counters of the final result
\* add up to the number of targets enumerated, and so does the total the
\* report is given.
C1_CountsAddUpToTargets ==
    /\ Merged => Total(measureFinalResult) = Len(svcNamespacedName)
    /\ report.kind # "" => report.total = Len(svcNamespacedName)

\* Reached: a merged run of three targets on two workers that both took
\* part, with a Ready, a NotFound and a NotReady target.
C1_Witness ==
    /\ Merged /\ Len(svcNamespacedName) = 3 /\ Concurrency = 2
    /\ \A w \in Workers : Total(workerMeasureResults[w]) > 0
    /\ measureFinalResult.ReadyCount = 1
    /\ measureFinalResult.NotFoundCount = 1
    /\ measureFinalResult.NotReadyCount = 1

\* C2: every item is received by at most one worker, gets at most one
\* counter increment and one group.Done; a Done comes only after the
\* increment; an item that was received and is no longer in a worker's hands
\* has exactly one of each; the counters of a worker count exactly the items
\* it received and classified; the wait-group counter is the number of items
\* added and not yet done, and never negative.
C2_ExactlyOnce ==
    /\ \A i \in Items :
        /\ Len(recvBy[i]) <= 1
        /\ Len(classOf[i]) <= 1
        /\ doneOf[i] <= Len(classOf[i])
        /\ Len(classOf[i]) <= Len(recvBy[i])
        /\ Len(recvBy[i]) = 1 /\ i \notin InHand => Len(classOf[i]) = 1 /\ doneOf[i] = 1
        /\ i \in Added \/ Len(recvBy[i]) = 0
    /\ \A w \in Workers :
        Total(currentMeasureResult[w])
            = Cardinality({i \in ReceivedBy(w) : Len(classOf[i]) = 1})
    /\ group >= 0
    /\ group = Cardinality({i \in Added : doneOf[i] = 0})
    /\ panicked # "sync: negative WaitGroup counter"

\* Reached: the run has returned after three targets, each received,
\* classified and signalled once, handled by two workers.
C2_Witness ==
    /\ pcMain = "returned" /\ Len(svcNamespacedName) = 3 /\ Concurrency = 2
    /\ \A i \in Items : Len(recvBy[i]) = 1 /\ Len(classOf[i]) = 1 /\ doneOf[i] = 1
    /\ \A w \in Workers : ReceivedBy(w) # {}
    /\ group = 0

NonReady == {"NotReady", "NotFound", "Fail"}
LaterCalls == {"cfg", "rev", "pods", "deploy", "kpa", "sks", "ing"}

\* C3: at the top-level lookup a not-found error counts NotFound, any other
\* error counts Fail, a fetched service that is not ready counts NotReady,
\* and Fail is counted at no later lookup.
C3_TopLevelClassification ==
    \A w \in Workers :
        /\ it[w].call = "svc" /\ it[w].err # NoErr /\ IsNotFound(it[w].err)
               => it[w].class = "NotFound"
        /\ it[w].call = "svc" /\ it[w].err # NoErr /\ ~IsNotFound(it[w].err)
               => it[w].class = "Fail"
        /\ it[w].call = "svc" /\ it[w].err = NoErr /\ ~it[w].svcIns.ready
               => it[w].class = "NotReady"
        /\ it[w].class = "Fail" => it[w].call = "svc"

\* The first pod lacks one of the two conditions or of the two container
\* statuses.
PodLacks(podList) ==
    /\ Len(podList) > 0
    /\ \/ getPodCondition(podList[1], "PodScheduled") = -1
       \/ getPodCondition(podList[1], "ContainersReady") = -1
       \/ ~getContainerStatus(podList[1].containers, "queue-proxy").found
       \/ ~getContainerStatus(podList[1].containers, "user-container").found
\* Worker w is past the pod block of its item.
PodBlockDone(w) ==
    \/ it[w].call = "deploy" /\ it[w].err = NoErr
    \/ it[w].call \in {"kpa", "sks", "ing"}

\* C4: an error of any lookup after the top-level one, and a first pod that
\* lacks PodScheduled, ContainersReady, the queue-proxy status or the
\* user-container status, count NotReady and send the worker to group.Done().
C4_LaterFailuresAreNotReady ==
    \A w \in Workers :
        /\ it[w].call \in LaterCalls /\ it[w].err # NoErr
               => it[w].class = "NotReady" /\ pc[w] = "done"
        /\ PodBlockDone(w) /\ PodLacks(it[w].podList)
               => it[w].class = "NotReady" /\ pc[w] = "done"

\* Reached: one worker has counted NotReady an item whose ingress lookup
\* failed while the other has counted NotReady an item whose first pod has
\* no queue-proxy status.
C4_Witness ==
    \E w1, w2 \in Workers :
        /\ it[w1].call = "ing" /\ it[w1].err # NoErr /\ it[w1].class = "NotReady"
        /\ it[w2].call = "deploy" /\ it[w2].err = NoErr /\ it[w2].class = "NotReady"
        /\ Len(it[w2].podList) > 0
        /\ ~getContainerStatus(it[w2].podList[1].containers, "queue-proxy").found

\* Worker w is inside the critical section, its row appended.
RowAppended(w) == pc[w] \in {"rawRow", "verbose", "sums", "unlock"}

\* C5: the row appended for an item whose pod list is empty carries zero in
\* the four pod columns (the same four values are then added to the sums).
C5_EmptyPodListGivesZeroDurations ==
    \A w \in Workers :
        RowAppended(w) /\ Len(it[w].podList) = 0 =>
            LET r == rows[Len(rows)]
            IN /\ r.pod_scheduled = 0
               /\ r.containers_ready = 0
               /\ r.queue_proxy_started = 0
               /\ r.user_container_started = 0

\* A row without the name and namespace of its target.
Anonymous(r) == With(r, [svc |-> <<>>, svcNs |-> ""])

\* C6: what is recorded for an item depends on the answers read for it only:
\* two Ready items with the same raw timestamps have the same durations, and
\* two items abandoned on the same answer are counted alike.
C6_ResultDependsOnAnswersOnly ==
    /\ pcMain \notin {"report", "returned"} /\ Len(rows) = Len(rawRows) =>
        \A a, b \in 1..Len(rows) :
            Anonymous(rawRows[a]) = Anonymous(rawRows[b])
                => Anonymous(rows[a]) = Anonymous(rows[b])
    /\ \A w1, w2 \in Workers :
        /\ it[w1].class \in NonReady /\ it[w2].class \in NonReady
        /\ it[w1].call = it[w2].call /\ it[w1].err = it[w2].err
        /\ it[w1].svcIns = it[w2].svcIns /\ it[w1].podList = it[w2].podList
        => it[w1].class = it[w2].class

\* C7: a fetched object that lacks a condition whose time is needed (here the
\* ready service without ConfigurationsReady or RoutesReady) has its item
\* counted NotReady or Fail, and no worker ever panics on a nil condition or
\* a nil running state.
C7_MissingTimestampAbandons ==
    /\ panicked # "nil pointer dereference"
    /\ \A w \in Workers :
        /\ it[w].call = "svc" /\ it[w].err = NoErr /\ it[w].svcIns.ready
        /\ Absent \in {GetCondition(it[w].svcIns, "ConfigurationsReady"),
                       GetCondition(it[w].svcIns, "RoutesReady")}
        => it[w].class \in {"NotReady", "Fail"}

\* C8: with no target enumerated nothing is dispatched, the coordinator
\* never waits, merges, sorts or reports, both tables stay empty, and once
\* the clients were constructed the run returns "no service found to measure".
C8_EmptyListFailsAtOnce ==
    Len(svcNamespacedName) = 0 =>
        /\ pcMain \in {"clients", "spawn", "check", "returned"}
        /\ next = 0 /\ group = 0
        /\ \A w \in Workers : pc[w] \in {"off", "recv"} /\ it[w] = ZeroIteration
        /\ ~Merged /\ measureFinalResult = MeasureResult
        /\ rows = <<>> /\ rawRows = <<>> /\ report.kind = ""
        /\ pcMain = "returned" => runErr # NoErr
        /\ pcMain = "returned" /\ (\E w \in Workers : pc[w] # "off") => runErr = ErrNoService

\* Reached: the run over an empty list has returned that error.
C8_Witness ==
    /\ Len(svcNamespacedName) = 0 /\ pcMain = "returned" /\ runErr = ErrNoService

\* C9: once the dispatch has begun the run's error stays nil; a worker that
\* has counted an item NotReady, NotFound or Fail goes on to group.Done();
\* and when the run has returned every item has been counted.
C9_FailuresStayPerTarget ==
    /\ next >= 1 => runErr = NoErr
    /\ \A w \in Workers : it[w].class \in NonReady => pc[w] = "done"
    /\ pcMain = "returned" /\ next >= 1 =>
        /\ report.kind # ""
        /\ \A i \in Items : Len(classOf[i]) = 1 /\ doneOf[i] = 1

\* Reached: the run has returned without error after a NotFound, a Fail and
\* a NotReady target.
C9_Witness ==
    /\ pcMain = "returned" /\ runErr = NoErr /\ Len(svcNamespacedName) = 3
    /\ measureFinalResult.NotFoundCount = 1
    /\ measureFinalResult.FailCount = 1
    /\ measureFinalResult.NotReadyCount = 1
    /\ report.kind = "counts"

\* The header rows are in front of the tables.
HeaderAdded == Merged /\ pcMain \in {"report", "returned"}
DataRowCount(t) == IF HeaderAdded THEN Len(t) - 1 ELSE Len(t)

\* C10: from the return of group.Wait() on, every worker is idle at the
\* receive with its slot equal to its local copy, every item has been counted
\* and signalled, the lock is free and each table has one row per Ready item;
\* the final result is untouched before the merge, and the merge runs once.
C10_MergeAfterAllDone ==
    /\ merges <= 1
    /\ ~Merged => measureFinalResult = MeasureResult
    /\ pcMain \in {"sort", "report"} \/ (pcMain = "returned" /\ next >= 1) => merges = 1
    /\ pcMain \in {"merge", "sort", "report"} \/ Merged =>
        /\ \A w \in Workers :
            /\ pc[w] = "recv" /\ it[w] = ZeroIteration
            /\ workerMeasureResults[w] = currentMeasureResult[w]
        /\ \A i \in Items : Len(classOf[i]) = 1 /\ doneOf[i] = 1
        /\ group = 0 /\ ~lock
        /\ DataRowCount(rows) = Cardinality({i \in Items : classOf[i] = <<"Ready">>})
        /\ DataRowCount(rawRows) = DataRowCount(rows)
    /\ Merged => measureFinalResult = MergeLoop(MeasureResult, workerMeasureResults, 0, Concurrency)

\* Reached: the merge has run over two workers that each appended a row.
C10_Witness ==
    /\ Merged /\ Concurrency = 2
    /\ \A w \in Workers : workerMeasureResults[w].ReadyCount >= 1
    /\ measureFinalResult.ReadyCount >= 2

\* Worker w is between lock.Lock() and lock.Unlock().
InSection(w) == pc[w] \in {"row", "rawRow", "verbose", "sums", "unlock"}
\* The sort has not run yet.
Unsorted == pcMain \notin {"report", "returned"}

\* C11: at most one worker is between Lock and Unlock, and the mutex is held
\* exactly then; whenever no worker is there the two tables have the same
\* length and, before the sort, their k-th rows name the same target; and a
\* step that changes a table is the append of the worker holding the mutex
\* or the coordinator's sort.
C11_TablesChangeUnderTheLock ==
    /\ [](/\ Cardinality({w \in Workers : InSection(w)}) <= 1
          /\ lock <=> \E w \in Workers : InSection(w)
          /\ (\A w \in Workers : ~InSection(w)) =>
                /\ Len(rows) = Len(rawRows)
                /\ Unsorted => \A k \in 1..Len(rows) :
                       /\ rows[k].svc = rawRows[k].svc
                       /\ rows[k].svcNs = rawRows[k].svcNs)
    /\ [][rows' # rows \/ rawRows' # rawRows =>
             \/ pcMain = "sort"
             \/ \E w \in Workers :
                    /\ lock /\ pc[w] \in {"row", "rawRow"} /\ pc'[w] # pc[w]
                    /\ \A v \in Workers \ {w} : ~InSection(v)]_vars

\* Reached: one worker is appending its raw row to tables that already hold
\* another target's rows while the other worker waits for the mutex.
C11_Witness ==
    \E w, v \in Workers :
        /\ pc[w] = "rawRow" /\ pc[v] = "lock" /\ lock
        /\ Len(rows) = 2 /\ Len(rawRows) = 1

\* The data rows of a table: the table without its header row.
DataRows(t) == IF HeaderAdded THEN Tail(t) ELSE t
\* The number of data rows of table t that name target i.
RowsOf(t, i) ==
    Cardinality({k \in 1..Len(DataRows(t)) :
        /\ DataRows(t)[k].svc = svcNamespacedName[i][1]
        /\ DataRows(t)[k].svcNs = svcNamespacedName[i][2]})
ReadyItems == {i \in Items : classOf[i] = <<"Ready">>}

\* C12: once the merge has run, each table holds one data row for every
\* Ready target and none for any other target, and the merged ReadyCount is
\* the number of data rows of each table and the number of overallReady
\* samples.
C12_OneRowPerReadyTarget ==
    Merged =>
        /\ \A i \in Items :
              /\ RowsOf(rows, i) = (IF i \in ReadyItems THEN 1 ELSE 0)
              /\ RowsOf(rawRows, i) = (IF i \in ReadyItems THEN 1 ELSE 0)
        /\ Len(DataRows(rows)) = Cardinality(ReadyItems)
        /\ Len(DataRows(rawRows)) = Cardinality(ReadyItems)
        /\ measureFinalResult.ReadyCount = Cardinality(ReadyItems)
        /\ Len(measureFinalResult.SvcReadyTime) = measureFinalResult.ReadyCount

\* Reached: a run of three targets on two workers, all three Ready, has
\* returned with three data rows under the header of each table.
C12_Witness ==
    /\ pcMain = "returned" /\ Len(svcNamespacedName) = 3 /\ Concurrency = 2
    /\ measureFinalResult.ReadyCount = 3
    /\ Len(rows) = 4 /\ Len(rawRows) = 4
    /\ \A w \in Workers : workerMeasureResults[w].ReadyCount >= 1

\* The name of the counter of a classification.
CounterOf(class) ==
    CASE class = "Ready" -> "ReadyCount"
      [] class = "NotReady" -> "NotReadyCount"
      [] class = "NotFound" -> "NotFoundCount"
      [] class = "Fail" -> "FailCount"
Counters == {"ReadyCount", "NotReadyCount", "NotFoundCount", "FailCount"}
\* This step is the one in which worker w counts its item NotReady, NotFound
\* or Fail.
CountsNonReady(w) == it[w].class = "" /\ it'[w].class \in NonReady

\* C13: the step in which a worker counts its item NotReady, NotFound or Fail
\* adds one to that counter of the worker's local result, copies it to the
\* worker's slot, and leaves the other counters, the sums, the samples, both
\* tables, the final result and every other worker's results as they were;
\* and no other step of a worker outside the critical section changes any
\* worker's results.
C13_NonReadyTouchesOneCounter ==
    [][\A w \in Workers :
          /\ CountsNonReady(w) =>
                /\ \A c \in Counters :
                      currentMeasureResult'[w][c] = currentMeasureResult[w][c]
                          + (IF c = CounterOf(it'[w].class) THEN 1 ELSE 0)
                /\ currentMeasureResult'[w].Sums = currentMeasureResult[w].Sums
                /\ currentMeasureResult'[w].SvcReadyTime = currentMeasureResult[w].SvcReadyTime
                /\ workerMeasureResults'[w] = currentMeasureResult'[w]
                /\ \A v \in Workers \ {w} :
                      /\ currentMeasureResult'[v] = currentMeasureResult[v]
                      /\ workerMeasureResults'[v] = workerMeasureResults[v]
                /\ UNCHANGED <<rows, rawRows, measureFinalResult>>
          /\ (currentMeasureResult'[w] # currentMeasureResult[w]
                 \/ workerMeasureResults'[w] # workerMeasureResults[w]) =>
                \/ CountsNonReady(w)
                \/ pc[w] \in {"row", "sums"} /\ lock
                \/ pcMain = "spawn"]_vars

\* Reached: a worker that recorded a Ready target before has just counted a
\* Fail, its sums and its one sample still those of the Ready target.
C13_Witness ==
    \E w \in Workers :
        /\ it[w].class = "Fail" /\ pc[w] = "done"
        /\ currentMeasureResult[w].FailCount = 1
        /\ currentMeasureResult[w].ReadyCount = 1
        /\ Len(currentMeasureResult[w].SvcReadyTime) = 1
        /\ currentMeasureResult[w].Sums.SvcReadySum > 0
        /\ Len(rows) = 1

\* The number a target name ends with: what follows its last "-".
NumericSuffix(name) == ParseInt(Split(name, "-")[Len(Split(name, "-"))])

\* C14: the sort never fails, and after it the data rows of each table are
\* in ascending order of the numeric suffix of the target name.
C14_SortedByNumericSuffix ==
    /\ panicked # "index out of range"
    /\ HeaderAdded =>
        \A a, b \in 1..Len(DataRows(rows)) :
            a < b =>
                /\ NumericSuffix(DataRows(rows)[a].svc) <= NumericSuffix(DataRows(rows)[b].svc)
                /\ NumericSuffix(DataRows(rawRows)[a].svc)
                       <= NumericSuffix(DataRows(rawRows)[b].svc)

\* The name and namespace of each row of a table.
TargetsOf(t) == [k \in 1..Len(t) |-> [svc |-> t[k].svc, svcNs |-> t[k].svcNs]]
\* The Ready targets from the i-th on, in the order of their enumeration.
RECURSIVE ReadyInOrder(_)
ReadyInOrder(i) ==
    IF i > Len(svcNamespacedName) THEN <<>>
    ELSE (IF i \in ReadyItems
          THEN <<[svc |-> svcNamespacedName[i][1], svcNs |-> svcNamespacedName[i][2]]>>
          ELSE <<>>) \o ReadyInOrder(i + 1)

\* C15: the order of the data rows after the sort does not depend on the
\* order in which the workers completed: it is the order the same sort gives
\* when the Ready targets complete in the order of their enumeration.
C15_OrderIndependentOfCompletion ==
    HeaderAdded =>
        /\ TargetsOf(DataRows(rows)) = sortSlice(ReadyInOrder(1))
        /\ TargetsOf(DataRows(rawRows)) = sortSlice(ReadyInOrder(1))

\* The run has printed its final report.
Reported == report.kind # ""
\* What only the measurement branch prints.
Statistics == {"sums", "averages", "OverallTotal", "OverallAverage", "Median", "Min",
               "Max", "Percentile50", "Percentile90", "Percentile95", "Percentile98",
               "Percentile99"}

\* C16: a report made with ReadyCount = 0 prints the counts only: no
\* average, median, min, max or percentile, no division and no file; and
\* every divisor a report used is greater than 0.
C16_NoDivisionWithoutReady ==
    Reported =>
        /\ measureFinalResult.ReadyCount = 0 =>
              /\ report.kind = "counts"
              /\ report.printed = {"counts"}
              /\ report.divisors = {}
              /\ report.files = {}
              /\ \A x \in DOMAIN report.averages : report.averages[x] = Quotient(0, 1)
        /\ \A d \in report.divisors : d > 0
        /\ \A x \in DOMAIN report.averages : report.averages[x].den > 0
        /\ \A k \in 1..Len(report.percentages) : report.percentages[k].den > 0

\* Reached: a run of three targets, none of them Ready, has returned after
\* a report of the counts.
C16_Witness ==
    /\ pcMain = "returned" /\ Reported /\ Len(svcNamespacedName) = 3
    /\ measureFinalResult.ReadyCount = 0
    /\ report.total = 3 /\ report.kind = "counts"

\* C17: every report prints the counts and the percentages, and prints the
\* latency statistics exactly when ReadyCount > 0.
C17_CountsAndPercentagesAlways ==
    Reported =>
        /\ "counts" \in report.printed
        /\ "percentages" \in report.printed
        /\ measureFinalResult.ReadyCount > 0 => Statistics \subseteq report.printed
        /\ measureFinalResult.ReadyCount = 0 => Statistics \cap report.printed = {}

\* C18: in every data row overall_ready equals route_ready, and in every
\* worker's local result, every slot and the final result SvcReadySum equals
\* SvcRoutesReadySum.
C18_OverallReadyIsRoutesReady ==
    /\ \A k \in 1..Len(DataRows(rows)) :
          DataRows(rows)[k].overall_ready = DataRows(rows)[k].route_ready
    /\ \A w \in Workers :
          /\ currentMeasureResult[w].Sums.SvcReadySum
                 = currentMeasureResult[w].Sums.SvcRoutesReadySum
          /\ workerMeasureResults[w].Sums.SvcReadySum
                 = workerMeasureResults[w].Sums.SvcRoutesReadySum
    /\ measureFinalResult.Sums.SvcReadySum = measureFinalResult.Sums.SvcRoutesReadySum

\* Reached: the merge of two workers' results for three Ready targets, the
\* two sums equal and not zero.
C18_Witness ==
    /\ Merged /\ Concurrency = 2 /\ measureFinalResult.ReadyCount = 3
    /\ measureFinalResult.Sums.SvcReadySum > 0
    /\ measureFinalResult.Sums.SvcReadySum = measureFinalResult.Sums.SvcRoutesReadySum
    /\ measureFinalResult.Sums.SvcReadySum # measureFinalResult.Sums.SvcConfigurationsReadySum
    /\ Len(DataRows(rows)) = 3

\* The orders in which the slots can be merged.
SlotOrders == {p \in [Workers -> Workers] : \A a, b \in Workers : a # b => p[a] # p[b]}
\* The merge loop taking the slots in the order p.
RECURSIVE MergeInOrder(_, _, _, _, _)
MergeInOrder(f, results, p, i, n) ==
    IF i < n THEN MergeInOrder(MergeSlot(f, results[p[i]]), results, p, i + 1, n) ELSE f
\* The two sequences hold the same values the same number of times.
SameSamples(a, b) ==
    /\ Len(a) = Len(b)
    /\ \A k \in 1..Len(a) :
          Cardinality({x \in 1..Len(a) : a[x] = a[k]})
              = Cardinality({x \in 1..Len(b) : b[x] = a[k]})

\* C19: merging the slots in any order gives the counters and the sums of
\* the merge in index order, and the same samples up to their order.
C19_MergeIsCommutative ==
    \A p \in SlotOrders :
        LET inOrder == MergeLoop(MeasureResult, workerMeasureResults, 0, Concurrency)
            permuted == MergeInOrder(MeasureResult, workerMeasureResults, p, 0, Concurrency)
        IN /\ \A c \in Counters : permuted[c] = inOrder[c]
           /\ permuted.Sums = inOrder.Sums
           /\ SameSamples(permuted.SvcReadyTime, inOrder.SvcReadyTime)

\* Reached: the merge has run over two slots that differ in their counters,
\* their sums and the number of their samples.
C19_Witness ==
    /\ Merged /\ Concurrency = 2
    /\ workerMeasureResults[0].ReadyCount = 2 /\ workerMeasureResults[1].ReadyCount = 1
    /\ workerMeasureResults[0].Sums # workerMeasureResults[1].Sums
    /\ workerMeasureResults[0].Sums.PodScheduledSum # workerMeasureResults[1].Sums.PodScheduledSum
    /\ measureFinalResult.Sums
           = MergeInOrder(MeasureResult, workerMeasureResults,
                          [w \in Workers |-> 1 - w], 0, Concurrency).Sums

\* C20: the verbose step of a worker changes nothing but what is printed,
\* and goes on to the sums whatever the option; nothing is printed when the
\* option is off, and no other step prints a [Verbose] block.
C20_VerboseOnlyPrints ==
    /\ [](~VerboseChanged => stdout = <<>>)
    /\ [][\A w \in Workers :
             pc[w] = "verbose" /\ pc'[w] # "verbose" =>
                 /\ pc'[w] = "sums"
                 /\ \A v \in Workers \ {w} : pc'[v] = pc[v]
                 /\ UNCHANGED <<svcNamespacedName, Concurrency, VerboseChanged, pcMain,
                                next, runErr, group, lock, workerMeasureResults,
                                currentMeasureResult, dur, it, rows, rawRows,
                                measureFinalResult, report, panicked, recvBy, classOf,
                                doneOf, merges>>]_vars
    /\ [][stdout' # stdout =>
             /\ VerboseChanged
             /\ \E w \in Workers : pc[w] = "verbose" /\ pc'[w] = "sums"]_vars

\* Reached: a run with the option on has returned after printing the blocks
\* of two Ready targets, with two data rows in each table.
C20_Witness ==
    /\ VerboseChanged /\ pcMain = "returned"
    /\ Len(stdout) = 2 /\ measureFinalResult.ReadyCount = 2
    /\ Len(DataRows(rows)) = 2 /\ Len(DataRows(rawRows)) = 2

\* a <= b, a < b and a = b on two float64 values that are numbers.
AtMost(a, b) == a.den > 0 /\ b.den > 0 /\ a.num * b.den <= b.num * a.den
Below(a, b) == a.den > 0 /\ b.den > 0 /\ a.num * b.den < b.num * a.den
SameValue(a, b) == a.den > 0 /\ b.den > 0 /\ a.num * b.den = b.num * a.den

ClientFailed == \E c \in Clients : runErr = ClientErr(c)
\* No target has been handed to a worker.
NothingDispatched == next = 0 /\ \A i \in Items : recvBy[i] = <<>>

\* C22: a run in which a client could not be constructed returns that error
\* with no worker started and no target dispatched, and a run in which the
\* output directory could not be set up returns that error, with no target
\* dispatched either.
C22_ConstructionFailureAborts ==
    /\ ClientFailed =>
          /\ pcMain = "returned" /\ NothingDispatched
          /\ \A w \in Workers : pc[w] = "off"
    /\ report.location.err # NoErr =>
          /\ pcMain = "returned" /\ runErr = report.location.err
          /\ NothingDispatched

\* The lookups of the chain, in the order of the code.
LookupOrder == <<"svc", "cfg", "rev", "pods", "deploy", "kpa", "sks", "ing">>
Lookups == {LookupOrder[k] : k \in 1..Len(LookupOrder)}
\* The place of a lookup in the chain, 0 for no lookup.
Position(call) ==
    IF call \in Lookups THEN CHOOSE k \in 1..Len(LookupOrder) : LookupOrder[k] = call ELSE 0
\* Where a worker goes after lookup c succeeded.
After(c) == IF c = "ing" THEN "lock" ELSE LookupOrder[Position(c) + 1]
\* This step is a lookup issued by worker w.
IssuesLookup(w) == pc[w] \in Lookups /\ it'[w] # it[w]

\* C23: in a running process a worker that is about to issue a lookup has
\* issued exactly the earlier lookups of the chain for its item, the last of
\* them without error, and has not classified the item; the lookup it
\* issues is recorded for the same item; after it the worker is at the next lookup of the chain, or has
\* counted the item and is at group.Done(), or the process has panicked; and
\* the lookup recorded for an item changes in no other step, so a worker
\* that has counted its item issues no further lookup for it.
C23_LookupsInOrderUntilFailure ==
    /\ [](\A w \in Workers :
            /\ Running /\ pc[w] \in Lookups =>
                  /\ it[w].j \in Items /\ it[w].class = "" /\ it[w].err = NoErr
                  /\ Position(it[w].call) = Position(pc[w]) - 1
            /\ it[w].class \in NonReady \/ it[w].err # NoErr => pc[w] = "done")
    /\ [][\A w \in Workers :
             /\ IssuesLookup(w) =>
                   /\ it'[w].call = pc[w] /\ it'[w].j = it[w].j
                   /\ \/ pc'[w] = After(pc[w]) /\ it'[w].err = NoErr /\ it'[w].class = ""
                      \/ pc'[w] = "done" /\ it'[w].class \in NonReady
                      \/ pc'[w] = pc[w] /\ panicked' # ""
             /\ it'[w].call # it[w].call =>
                   \/ IssuesLookup(w)
                   \/ it'[w].call = "" /\ (pc[w] = "done" \/ pc[w] = "recv")]_vars

\* Reached: one worker has issued all eight lookups for its item and is at
\* lock.Lock(), while the other has counted its item NotFound after the
\* service lookup alone.
C23_Witness ==
    \E w, v \in Workers :
        /\ pc[w] = "lock" /\ it[w].call = "ing" /\ it[w].err = NoErr
        /\ pc[v] = "done" /\ it[v].call = "svc" /\ it[v].class = "NotFound"

\* The coordinator is between the start of the workers and the return of
\* group.Wait().
Dispatching == pcMain \in {"check", "add", "send", "wait"}
\* This step is a step of worker w and of no other worker.
StepOf(w) ==
    /\ pc'[w] # pc[w]
    /\ \A v \in Workers \ {w} :
          pc'[v] = pc[v] /\ it'[v] = it[v] /\ currentMeasureResult'[v] = currentMeasureResult[v]

\* C24: a step that changes slot w is the initialisation of the slots, made
\* before any worker runs, or a step of worker w that copies its own local
\* result to the slot; between the start of the workers and the return of
\* group.Wait() no step of the coordinator changes a slot or the final
\* result; and the coordinator reads the slots, in the merge, only in states
\* in which every worker is idle at the receive with nothing left to write.
C24_SlotOwnedByItsWorker ==
    /\ [](pcMain = "merge" =>
            \A w \in Workers :
                pc[w] = "recv" /\ workerMeasureResults[w] = currentMeasureResult[w])
    /\ [][\A w \in Workers :
             workerMeasureResults'[w] # workerMeasureResults[w] =>
                 \/ pcMain = "spawn" /\ \A v \in Workers : pc[v] = "off"
                 \/ /\ StepOf(w) /\ Dispatching
                    /\ workerMeasureResults'[w] = currentMeasureResult'[w]
                    /\ \A v \in Workers \ {w} :
                          workerMeasureResults'[v] = workerMeasureResults[v]]_vars
    /\ [][Dispatching /\ pcMain' # pcMain =>
             UNCHANGED <<workerMeasureResults, measureFinalResult>>]_vars

\* Reached: while the coordinator is still dispatching or waiting, worker 1
\* has written a NotReady count to its slot without the lock and worker 0,
\* holding the lock, has written a Ready target's sums to its own.
C24_Witness ==
    /\ Concurrency = 2 /\ Dispatching
    /\ pc[0] = "unlock" /\ workerMeasureResults[0].ReadyCount = 1
    /\ workerMeasureResults[0].NotReadyCount = 0
    /\ pc[1] = "done" /\ it[1].class = "NotReady"
    /\ workerMeasureResults[1].NotReadyCount = 1
    /\ workerMeasureResults[1].ReadyCount = 0

\* No step of the coordinator or of a worker is possible any more.
Halted == ~ENABLED Next
\* Every target has been sent and received.
AllSent == next = Len(svcNamespacedName) /\ \A i \in Items : Len(recvBy[i]) = 1

\* C25: a run over a non-empty target list whose clients were constructed
\* does not come to a halt before every target was sent, group.Wait() has
\* returned and the merge was performed.
C25_DispatchWaitAndMergeComplete ==
    Len(svcNamespacedName) > 0 /\ ~ClientFailed /\ Halted =>
        AllSent /\ group = 0 /\ Merged

\* C26: when the run has come to a halt after the workers were started --
\* the last target dispatched and processed, or the empty target list
\* refused -- every worker has terminated: none is left at the receive.
C26_WorkersTerminate ==
    Halted /\ pcMain = "returned" /\ ~ClientFailed =>
        \A w \in Workers : pc[w] = "off"

\* The goroutines that have been started.
Started == {w \in Workers : pc[w] # "off"}
\* The targets taken from the channel and not yet signalled with group.Done().
InFlight == {i \in Items : Len(recvBy[i]) >= 1 /\ doneOf[i] = 0}

\* C27: before the goroutines are started, and in a run that failed to
\* construct a client, no worker runs; from then on exactly Concurrency
\* workers run; the targets received and not yet signalled are never more
\* than Concurrency, each of them in the hands of a worker of its own; and a
\* target is handed over only in a step in which the coordinator is at the
\* send of that target and the receiving worker is idle at the receive.
C27_ConcurrencyBoundsTheWork ==
    /\ []((IF pcMain \in {"clients", "spawn"} \/ ClientFailed
           THEN Started = {}
           ELSE Cardinality(Started) = Concurrency)
          /\ Cardinality(InFlight) <= Concurrency
          /\ InFlight = InHand
          /\ \A w, v \in Workers : w # v /\ it[w].j # 0 => it[w].j # it[v].j)
    /\ [][\A i \in Items :
             recvBy'[i] # recvBy[i] =>
                 /\ pcMain = "send" /\ next = i
                 /\ \E w \in Workers :
                       /\ pc[w] = "recv" /\ it[w] = ZeroIteration
                       /\ recvBy'[i] = Append(recvBy[i], w)
                       /\ it'[w].j = i]_vars

\* Reached: with two workers and three targets both workers are busy with
\* their targets while the coordinator is blocked at the send of the third.
C27_Witness ==
    /\ Concurrency = 2 /\ Len(svcNamespacedName) = 3
    /\ pcMain = "send" /\ next = 3
    /\ Cardinality(InFlight) = 2
    /\ \A w \in Workers : pc[w] # "recv"

\* The targets some worker has received.
Received == {i \in Items : Len(recvBy[i]) >= 1}

\* C28: the targets received are always the first ones of the enumeration,
\* with none left out, and the target received in a step is the one that
\* follows them; a target may be signalled complete while an earlier one is
\* still being handled.
C28_DispatchInEnumerationOrder ==
    /\ [](\A i \in Items : i \in Received => \A k \in 1..i : k \in Received)
    /\ [][\A i \in Items :
             i \notin Received /\ Len(recvBy'[i]) >= 1 =>
                 /\ Received = 1..(i - 1)
                 /\ \A k \in Items : k # i => recvBy'[k] = recvBy[k]]_vars

\* Reached: of three targets received in the order of their enumeration the
\* second and the third are already signalled complete while the first is
\* still in the hands of its worker.
C28_Witness ==
    /\ Len(svcNamespacedName) = 3 /\ Received = 1..3
    /\ doneOf[1] = 0 /\ doneOf[2] = 1 /\ doneOf[3] = 1
    /\ 1 \in InHand

\* In the sums s the ingress-ready sum is the sum of the other two.
IngressSumsAddUp(s) ==
    s.IngressReadySum = s.IngressNetworkConfiguredSum + s.IngressLoadBalancerReadySum

\* C29: in every data row ingress_ready = ingress_config_ready +
\* ingress_lb_ready; measured on the raw row of the same target,
\* ingress_ready is the time from the creation of the ingress to load
\* balancer ready, ingress_config_ready the time from the creation to
\* network configured and ingress_lb_ready the time from network configured
\* to load balancer ready; and the same equation holds for the three sums of
\* every worker's local result, of every slot and of the final result.
C29_IngressReadyIsConfiguredPlusLoadBalancer ==
    /\ \A k \in 1..Len(DataRows(rows)) :
          LET r == DataRows(rows)[k]
          IN /\ r.ingress_ready = r.ingress_config_ready + r.ingress_lb_ready
             /\ k <= Len(DataRows(rawRows)) =>
                   LET raw == DataRows(rawRows)[k]
                   IN /\ raw.svc = r.svc /\ raw.svcNs = r.svcNs
                      /\ r.ingress_ready
                             = Seconds(raw.ingress_lb_ready - raw.ingress_created)
                      /\ r.ingress_config_ready
                             = Seconds(raw.ingress_config_ready - raw.ingress_created)
                      /\ r.ingress_lb_ready
                             = Seconds(raw.ingress_lb_ready - raw.ingress_config_ready)
    /\ \A w \in Workers :
          /\ IngressSumsAddUp(currentMeasureResult[w].Sums)
          /\ IngressSumsAddUp(workerMeasureResults[w].Sums)
    /\ IngressSumsAddUp(measureFinalResult.Sums)

\* Reached: the merge of two workers' results for three Ready targets, with
\* an ingress-ready sum of 6 s made of 3 s to network configured and 3 s
\* from there to load balancer ready.
C29_Witness ==
    /\ Merged /\ Concurrency = 2 /\ measureFinalResult.ReadyCount = 3
    /\ \A w \in Workers : workerMeasureResults[w].ReadyCount >= 1
    /\ measureFinalResult.Sums.IngressReadySum = 6
    /\ measureFinalResult.Sums.IngressNetworkConfiguredSum = 3
    /\ measureFinalResult.Sums.IngressLoadBalancerReadySum = 3
    /\ Len(DataRows(rows)) = 3

====
